---- MODULE Spec2Model ----
(***************************************************************************)
(* Universal Converter: the background worker's CurrencyRateService.       *)
(*                                                                         *)
(* The service is cooperative-async JavaScript.  Every action below is one *)
(* synchronous run of code: from the call of a method, or from the         *)
(* resumption after an `await`, up to the next `await` of a storage call   *)
(* or an HTTP call.  A task is one asynchronous invocation of a public     *)
(* method of the service; its record holds the locals of that invocation.  *)
(* NTasks bounds the number of invocations of a behaviour.                 *)
(***************************************************************************)
EXTENDS Integers, Sequences, FiniteSets, TLC

----------------------------------------------------------------------------
(* Bounds of the model *)

NTasks == 2
MaxTime == 4

(* Configuration of the service (config overrides of the constructor),     *)
(* scaled to time units with the order of the defaults kept:               *)
(* inactivity 5 min <= stale 45 min < refresh 50 min < timeout 60 min.     *)
inactivityThreshold == 1
staleThreshold == 1
refreshThreshold == 2
cacheTimeout == 3

Tasks == 1..NTasks
NoTask == 0

(* Currency codes: the cache keys are lowercase, callers pass any case and *)
(* the primary API answers with uppercase keys.                            *)
Codes == {"usd", "eur"}
UpperCodes == {"USD", "EUR"}
Inputs == Codes \cup UpperCodes

toLowerCase(s) ==
  CASE s = "USD" -> "usd"
    [] s = "EUR" -> "eur"
    [] OTHER -> s

toUpperCase(s) ==
  CASE s = "usd" -> "USD"
    [] s = "eur" -> "EUR"
    [] OTHER -> s

pairKey(fromLower, toLower) == fromLower \o "-" \o toLower
PairKeys == {pairKey(a, b) : a \in Codes, b \in Codes}

(* Rates: a rate table maps a code to a rate, NoRate where the key is      *)
(* missing (JavaScript undefined).                                         *)
NoRate == 0
RateVals == {1, 2}
NoRates == [c \in Codes |-> NoRate]
(* The bodies an API answers with: two full tables that differ in every    *)
(* rate, and a body without any rate.                                      *)
RateTables == {[c \in Codes |-> IF c = "usd" THEN 1 ELSE 2],
               [c \in Codes |-> IF c = "usd" THEN 2 ELSE 1],
               NoRates}
(* The same bodies as the primary API sends them, with uppercase keys *)
PrimaryBodies == {[k \in UpperCodes |-> tbl[toLowerCase(k)]] : tbl \in RateTables}

(* A cache entry {rates, timestamp, usedFallback}; NoEntry is null.        *)
NoEntry == [present |-> FALSE, rates |-> NoRates, timestamp |-> 0, usedFallback |-> FALSE]
Entry(rates, ts, fb) == [present |-> TRUE, rates |-> rates, timestamp |-> ts, usedFallback |-> fb]
EmptyCache == [c \in Codes |-> NoEntry]

(* What a promise of getCurrencyRate settles with. *)
NoOutcome == [kind |-> "none", rate |-> NoRate, usedFallback |-> FALSE, fromCache |-> FALSE, stale |-> FALSE, error |-> ""]
RateResult(rate, fb, fromCache, stale) ==
  [kind |-> "ok", rate |-> rate, usedFallback |-> fb, fromCache |-> fromCache, stale |-> stale, error |-> ""]
Error(msg) == [NoOutcome EXCEPT !.kind = "error", !.error = msg]
Void == [NoOutcome EXCEPT !.kind = "void"]

VARIABLES
  now,               \* _getCurrentTime()
  lastUserActivity,  \* this.lastUserActivity
  inFlightRequests,  \* this.inFlightRequests: pair key -> the task whose promise is stored
  storedCache,       \* storage[currencyRatesCache]: base -> entry
  storedActivity,    \* storage[lastUserActivity], NoActivity when the key is absent
  task,              \* the asynchronous invocations
  userSettings,      \* content script: userSettings
  listeners,         \* content script: the <<target, event>> pairs with a registered listener
  selectedText,      \* window.getSelection().toString(), as a sequence of tokens
  popupManager,      \* the PopupManager object of the content script
  body,              \* the popup elements attached to document.body
  handling,          \* the invocations of handleTextSelection
  dispatched,        \* the event the last step delivered, and the popup elements it removed
  lastActivityPing,  \* content script: lastActivityPing
  currentlyDisplayedText, \* content script: currentlyDisplayedText
  extensionContext,  \* isExtensionContextValid(): chrome.runtime.id is there
  outbox,            \* the updateActivity messages sent and not yet received by the worker
  pinged,            \* observer: the times at which the updateActivity messages were sent
  interacted,        \* observer: the time of the last click or selection in the page
  isCreatingContextMenu, \* background worker: isCreatingContextMenu
  contextMenus       \* chrome.contextMenus: the items, the callbacks not yet invoked, the calls made

menuVars == <<isCreatingContextMenu, contextMenus>>
contentVars == <<lastActivityPing, currentlyDisplayedText, extensionContext, outbox, pinged, interacted, menuVars>>
pageVars == <<userSettings, listeners, selectedText, popupManager, body, handling, dispatched, contentVars>>
vars == <<now, lastUserActivity, inFlightRequests, storedCache, storedActivity, task, pageVars>>

(* The callbacks createContextMenu hands to chrome: of removeAll, of getSelf *)
(* and, under the id of its item, of each contextMenus.create.              *)
MenuItems == {"open-settings", "clear-currency-cache", "reload-extension"}
Callbacks == {"removeAll", "getSelf"} \cup MenuItems
InstallTypes == {"development", "normal"}

NoContextMenus(installType) ==
  [items |-> {}, pending |-> [c \in Callbacks |-> 0], installType |-> installType,
   accepted |-> 0, ignored |-> 0, lastCall |-> "none"]

MenuNotCreated == isCreatingContextMenu = FALSE /\ contextMenus = NoContextMenus("normal")

(* The page before the content script has run init(): no settings, no       *)
(* listener, nothing selected, a popup manager is not yet constructed (its  *)
(* constructor sets conversionPopup to null, here NoPopup), no popup in the *)
(* document.                                                                *)
Null == "null"
NHandlings == 2
Handlings == 1..NHandlings
NoConversions == <<>>
IdleHandling == [pc |-> "idle", conversions |-> NoConversions, called |-> FALSE, overtaken |-> FALSE]
NoEvent == [type |-> "", removed |-> {}]
NoPopup == 0
NewPopupManager == [conversionPopup |-> NoPopup]
NullText == <<Null>>
NoActivity == -1

PageNotLoaded ==
  /\ userSettings = Null
  /\ listeners = {}
  /\ selectedText = <<>>
  /\ popupManager = NewPopupManager
  /\ body = {}
  /\ handling = [p \in Handlings |-> IdleHandling]
  /\ dispatched = NoEvent
  /\ lastActivityPing = 0
  /\ currentlyDisplayedText = NullText
  /\ extensionContext = TRUE
  /\ outbox = 0
  /\ pinged = <<>>
  /\ interacted = NoActivity
  /\ MenuNotCreated

IdleTask ==
  [kind |-> "idle", pc |-> "idle", base |-> "", target |-> "", owner |-> NoTask,
   burst |-> NoTask, staleRate |-> NoRate, cachedUsedFallback |-> FALSE, api |-> "", rates |-> NoRates, ts |-> 0,
   snap |-> EmptyCache, todo |-> <<>>, outcome |-> NoOutcome,
   \* observations of the run, not read by the code:
   nPrimary |-> 0, nFallback |-> 0,       \* HTTP calls made to each API
   seenRate |-> NoRate,                   \* the rate of the target in the entry read
   seenValid |-> FALSE,                   \* that entry was younger than cacheTimeout
   seenActive |-> FALSE,                  \* the user was active at the activity gate
   primaryGave |-> NoRate,                \* the rate the primary API supplied
   fallbackGave |-> NoRate,               \* the rate the fallback API supplied
   seenPresent |-> FALSE,                 \* prefetchIfStale read an entry
   seenStale |-> FALSE,                   \* ... of age >= staleThreshold
   fault |-> FALSE,                       \* the last storage call of the invocation failed
   fetched |-> <<>>,                      \* the bases requested from the primary API, in order
   failed |-> {},                         \* the bases whose primary request failed
   readBases |-> {},                      \* the bases refreshCacheIfNeeded read
   due |-> <<>>,                          \* of these, in visiting order, those older than refreshThreshold
   passed |-> {},                         \* and those not older
   handler |-> ""]                        \* the event listener that runs the invocation, when it is modelled


----------------------------------------------------------------------------
(* Pure helpers of the service *)

isUserActiveAlways == TRUE

isUserActive == (now - lastUserActivity) < inactivityThreshold

isCacheValidInclusive(cached) ==
  IF ~cached.present THEN FALSE
  ELSE (now - cached.timestamp) <= cacheTimeout

isCacheValidStaleThreshold(cached) ==
  IF ~cached.present THEN FALSE
  ELSE (now - cached.timestamp) < staleThreshold

isCacheValidUnsigned(cached) ==
  IF ~cached.present THEN FALSE
  ELSE (now - cached.timestamp) < cacheTimeout /\ (now - cached.timestamp) >= 0

isCacheValid(cached) ==
  IF ~cached.present THEN FALSE
  ELSE (now - cached.timestamp) < cacheTimeout

shouldRefreshCacheIgnoringActivity(cached) ==
  IF ~cached.present THEN TRUE
  ELSE (now - cached.timestamp) >= cacheTimeout

shouldRefreshCacheStrict(cached) ==
  IF ~cached.present THEN TRUE
  ELSE IF ~isUserActive THEN FALSE
  ELSE (now - cached.timestamp) > cacheTimeout

shouldRefreshCache(cached) ==
  IF ~cached.present THEN TRUE
  ELSE IF ~isUserActive THEN FALSE
  ELSE (now - cached.timestamp) >= cacheTimeout

getCachedRateUncaught(baseCurrency, readOk) == storedCache[baseCurrency]

(* getCachedRate: the entry of the base in the stored cache object, null   *)
(* when the key is missing or the storage read threw.                      *)
getCachedRate(baseCurrency, readOk) ==
  IF readOk THEN storedCache[baseCurrency] ELSE NoEntry

(* The loop of fetchRatesFromPrimaryAPI that lowercases the keys of        *)
(* data.rates.                                                             *)
normalizedRates(data) ==
  [c \in Codes |->
     LET ks == {k \in DOMAIN data : toLowerCase(k) = c}
     IN IF ks = {} THEN NoRate ELSE data[CHOOSE k \in ks : TRUE]]

(* staleRate of _fetchCurrencyRate: cached.rates[toLower] when a cache     *)
(* entry was read, null otherwise.                                         *)
staleRateOf(cached, toLower) == IF cached.present THEN cached.rates[toLower] ELSE NoRate

----------------------------------------------------------------------------
(* Steps of _fetchCurrencyRate and of the two fetchRatesFrom...API methods, *)
(* as functions from the task record to the next task record.               *)

Done(r, outcome) ==
  [r EXCEPT !.pc = "done", !.outcome = IF r.outcome.kind = "none" THEN outcome ELSE r.outcome,
            !.api = "", !.rates = NoRates,
            !.ts = 0, !.snap = EmptyCache, !.todo = <<>>,
            !.staleRate = NoRate, !.cachedUsedFallback = FALSE]

(* fetchRatesFromPrimaryAPI up to `await this._fetch(url)` *)
fetchRatesFromPrimaryAPI(r, baseCurrency) ==
  [r EXCEPT !.pc = "http", !.api = "primary", !.base = toLowerCase(baseCurrency),
            !.rates = NoRates, !.nPrimary = @ + 1,
            !.fetched = Append(@, toLowerCase(baseCurrency))]

(* fetchRatesFromFallbackAPI up to `await this._fetch(url)` *)
fetchRatesFromFallbackAPI(r, baseCurrency) ==
  [r EXCEPT !.pc = "http", !.api = "fallback", !.base = baseCurrency,
            !.rates = NoRates, !.nFallback = @ + 1]

catchFallbackErrorRethrow(r, fallbackError) ==
  IF r.staleRate # NoRate
    THEN Done(r, RateResult(r.staleRate, r.cachedUsedFallback, TRUE, TRUE))
    ELSE Done(r, Error(fallbackError))

catchFallbackErrorNoNullCheck(r, fallbackError) ==
  Done(r, RateResult(r.staleRate, r.cachedUsedFallback, TRUE, TRUE))

catchFallbackErrorNoStale(r, fallbackError) ==
  Done(r, Error("Currency rate unavailable"))

(* catch (fallbackError): the stale rate as a last resort, else the error  *)
catchFallbackError(r, fallbackError) ==
  IF r.staleRate # NoRate
    THEN Done(r, RateResult(r.staleRate, r.cachedUsedFallback, TRUE, TRUE))
    ELSE Done(r, Error("Currency rate unavailable"))

(* catch (primaryError): try the fallback API *)
catchPrimaryError(r, primaryError) == fetchRatesFromFallbackAPI(r, r.base)

fetchCurrencyRateNoCacheCheck(r, cached) ==
  fetchRatesFromPrimaryAPI([r EXCEPT !.staleRate = staleRateOf(cached, r.target),
                                     !.cachedUsedFallback = cached.usedFallback], r.base)

(* _fetchCurrencyRate from the resumption after getCachedRate to the first *)
(* HTTP call or to its return.                                             *)
fetchCurrencyRate(r, cached) ==
  LET staleRate == staleRateOf(cached, r.target)
      \* of `cached` the code reads only staleRate and usedFallback from here on
      r1 == [r EXCEPT !.staleRate = staleRate, !.cachedUsedFallback = cached.usedFallback]
  IN IF cached.present /\ isCacheValid(cached) /\ cached.rates[r.target] # NoRate
       THEN Done(r1, RateResult(cached.rates[r.target], cached.usedFallback, TRUE, FALSE))
     ELSE IF ~shouldRefreshCache(cached) /\ staleRate # NoRate
       THEN Done(r1, RateResult(staleRate, cached.usedFallback, TRUE, TRUE))
     ELSE fetchRatesFromPrimaryAPI(r1, r.base)

rateLookupNoFlag(r) ==
  LET rate == r.rates[r.target]
  IN IF rate # NoRate THEN Done(r, RateResult(rate, FALSE, FALSE, FALSE))
     ELSE IF r.api = "primary" THEN catchPrimaryError(r, "Rate not found")
     ELSE catchFallbackError(r, "Rate not found")

(* The code that runs when a fetchRatesFrom...API call of getCurrencyRate  *)
(* has returned its rates: the lookup of the target.                       *)
rateLookup(r) ==
  LET rate == r.rates[r.target]
  IN IF r.api = "primary"
       THEN IF rate # NoRate
              THEN Done(r, RateResult(rate, FALSE, FALSE, FALSE))
              ELSE catchPrimaryError(r, "Rate not found")
       ELSE IF rate # NoRate
              THEN Done(r, RateResult(rate, TRUE, FALSE, FALSE))
              ELSE catchFallbackError(r, "Rate not found")

RECURSIVE refreshLoopInclusive(_)
refreshLoopInclusive(r) ==
  IF r.todo = <<>> THEN Done(r, Void)
  ELSE LET currency == Head(r.todo)[1]
           cacheAge == now - Head(r.todo)[2]
           rest == [r EXCEPT !.todo = Tail(r.todo)]
       IN IF cacheAge >= refreshThreshold
            THEN fetchRatesFromPrimaryAPI(rest, currency)
            ELSE refreshLoopInclusive(rest)

(* The for loop of refreshCacheIfNeeded over the entries of the cache       *)
(* object it read, from the current entry to the next `await` or the end:  *)
(* r.todo holds the entries not yet visited as <<currency, timestamp>>.    *)
RECURSIVE refreshLoop(_)
refreshLoop(r) ==
  IF r.todo = <<>> THEN Done(r, Void)
  ELSE LET currency == Head(r.todo)[1]
           cacheAge == now - Head(r.todo)[2]
           rest == [r EXCEPT !.todo = Tail(r.todo)]
       IN IF cacheAge > refreshThreshold
            THEN fetchRatesFromPrimaryAPI(rest, currency)
            ELSE refreshLoop(rest)

(* What the caller of a fetchRatesFrom...API does with its result *)
fetchReturned(r) ==
  CASE r.kind = "getRate" -> rateLookup(r)
    [] r.kind = "refresh" -> refreshLoop(r)
    [] OTHER -> Done(r, Void)

fetchThrewAborts(r, err) ==
  CASE r.kind = "getRate" /\ r.api = "primary" -> catchPrimaryError(r, err)
    [] r.kind = "getRate" /\ r.api = "fallback" -> catchFallbackError(r, err)
    [] OTHER -> Done(r, Void)

fetchThrewUncaught(r, err) ==
  CASE r.kind = "getRate" /\ r.api = "primary" -> catchPrimaryError(r, err)
    [] r.kind = "getRate" /\ r.api = "fallback" -> catchFallbackError(r, err)
    [] OTHER -> Done(r, Error(err))

(* What the caller of a fetchRatesFrom...API does when it throws *)
fetchThrew(r, err) ==
  CASE r.kind = "getRate" /\ r.api = "primary" -> catchPrimaryError(r, err)
    [] r.kind = "getRate" /\ r.api = "fallback" -> catchFallbackError(r, err)
    [] r.kind = "refresh" -> refreshLoop(r)
    [] OTHER -> Done(r, Void)

(* warmCache from the resumption after getCachedRate('usd') *)
warmCacheBody(r, cached) ==
  IF cached.present /\ isCacheValid(cached)
    THEN Done(r, Void)
    ELSE fetchRatesFromPrimaryAPI(r, "usd")

(* prefetchIfStale from the resumption after getCachedRate('usd'): the     *)
(* method returns here, the work it started goes on without it.            *)
prefetchBody(r, cached) ==
  LET cacheAge == now - cached.timestamp
      returned == [r EXCEPT !.outcome = Void]
  IN IF ~cached.present
       THEN [returned EXCEPT !.pc = "warmRead"]
     ELSE IF cacheAge > staleThreshold /\ cacheAge < cacheTimeout
       THEN fetchRatesFromPrimaryAPI(returned, "usd")
     ELSE Done(r, Void)

clearWholeStorage(storage) == [cache |-> EmptyCache, activity |-> NoActivity]

(* storage.remove(this.cacheStorageKey): the cache record goes, with every *)
(* base in it; the other keys of the storage stay.                         *)
removeCacheRecord(storage) == [storage EXCEPT !.cache = EmptyCache]

finallyDeleteForgotten(map, key) == map

(* finally { this.inFlightRequests.delete(pairKey) } *)
finallyDelete(map, key) == [map EXCEPT ![key] = NoTask]

hasInFlightNever(key) == FALSE

(* has(pairKey): is there a request in flight for the pair *)
hasInFlight(key) == inFlightRequests[key] # NoTask

setInFlightForgotten(map, key, t) == map

(* this.inFlightRequests.set(pairKey, requestPromise) *)
setInFlight(map, key, t) == [map EXCEPT ![key] = t]

(* Observer of refreshCacheIfNeeded: r is the record after a run of its    *)
(* loop over the entries `before`; the entries the run went through are    *)
(* noted with their age at that moment.                                    *)
Visited(before, r) == SubSeq(before, 1, Len(before) - Len(r.todo))
IsDue(e) == now - e[2] > refreshThreshold
FirstOf(e) == e[1]
RECURSIVE MapFirst(_)
MapFirst(es) == IF es = <<>> THEN <<>> ELSE <<FirstOf(Head(es))>> \o MapFirst(Tail(es))
Observed(before, r) ==
  IF r.kind # "refresh" THEN r
  ELSE LET v == Visited(before, r)
           notDue(e) == ~IsDue(e)
       IN [r EXCEPT !.due = @ \o MapFirst(SelectSeq(v, IsDue)),
                    !.passed = @ \cup {FirstOf(v[i]) : i \in {j \in 1..Len(v) : notDue(v[j])}}]

(* Observer: whether the storage call the invocation awaited failed *)
Faulted(r, ok) == [r EXCEPT !.fault = ~ok]

(* Install the next record of task t; when t is the getCurrencyRate call   *)
(* that created the promise and the promise settled, its finally runs.     *)
Resume(t, r) ==
  /\ task' = [task EXCEPT ![t] = r]
  /\ inFlightRequests' =
       IF r.kind = "getRate" /\ r.pc = "done" /\ r.owner = t
         THEN finallyDelete(inFlightRequests, pairKey(r.base, r.target))
         ELSE inFlightRequests

----------------------------------------------------------------------------
(* Actions *)

(* The worker starts with whatever an earlier run left in the persistent   *)
(* store: no cache, or an entry written long ago (timestamp 0), here one    *)
(* that came from the fallback API.  A new service has never seen the user  *)
(* (lastUserActivity = 0), so the clock starts where that is inactive.      *)
InitCaches ==
  {EmptyCache,
   [EmptyCache EXCEPT !["usd"] = Entry([c \in Codes |-> IF c = "usd" THEN 1 ELSE 2], 0, TRUE)]}

Init ==
  /\ now = inactivityThreshold
  /\ lastUserActivity = 0
  /\ inFlightRequests = [k \in PairKeys |-> NoTask]
  /\ storedCache \in InitCaches
  /\ storedActivity = NoActivity
  /\ task = [t \in Tasks |-> IdleTask]
  /\ PageNotLoaded

(* The clock advances. *)
Tick ==
  /\ now < MaxTime
  /\ now' = now + 1
  /\ UNCHANGED <<lastUserActivity, inFlightRequests, storedCache, storedActivity, task, pageVars>>

(* The call in flight for the same pair that a new call joins as a burst   *)
(* (observer only: it does not read the in-flight map).                    *)
BurstHead(t, key) ==
  LET heads == {o \in Tasks \ {t} :
                  /\ task[o].kind = "getRate" /\ task[o].pc # "done"
                  /\ pairKey(task[o].base, task[o].target) = key
                  /\ task[o].burst = o}
  IN IF heads = {} THEN t ELSE CHOOSE o \in heads : TRUE

(* getCurrencyRate(from, to) up to its first await *)
getCurrencyRate(t, from, to) ==
  /\ task[t].kind = "idle" /\ \A u \in 1..(t - 1) : task[u].kind # "idle"
  /\ LET fromLower == toLowerCase(from)
         toLower == toLowerCase(to)
         key == pairKey(fromLower, toLower)
         r == [IdleTask EXCEPT !.kind = "getRate", !.base = fromLower, !.target = toLower,
                               !.burst = BurstHead(t, key)]
     IN IF hasInFlight(key)
          THEN /\ task' = [task EXCEPT ![t] = [r EXCEPT !.pc = "awaitShared",
                                                       !.owner = inFlightRequests[key]]]
               /\ UNCHANGED inFlightRequests
          ELSE /\ task' = [task EXCEPT ![t] = [r EXCEPT !.pc = "readCache", !.owner = t]]
               /\ inFlightRequests' = setInFlight(inFlightRequests, key, t)
  /\ UNCHANGED <<now, lastUserActivity, storedCache, storedActivity, pageVars>>

(* _fetchCurrencyRate resumes after `await this.getCachedRate(fromLower)` *)
fetchCurrencyRateResume(t, readOk) ==
  /\ task[t].kind = "getRate" /\ task[t].pc = "readCache"
  /\ LET stored == IF readOk THEN storedCache[task[t].base] ELSE NoEntry
         seen == [task[t] EXCEPT
                    !.seenRate = stored.rates[task[t].target],
                    !.seenValid = stored.present /\ now - stored.timestamp < cacheTimeout,
                    !.seenActive = now - lastUserActivity < inactivityThreshold]
     IN Resume(t, Faulted(fetchCurrencyRate(seen, getCachedRate(task[t].base, readOk)), readOk))
  /\ UNCHANGED <<now, lastUserActivity, storedCache, storedActivity, pageVars>>

(* A waiting getCurrencyRate call resumes when the shared promise settled *)
awaitShared(t) ==
  /\ task[t].pc = "awaitShared"
  /\ task[task[t].owner].pc = "done"
  /\ task' = [task EXCEPT ![t] = Done(@, task[task[t].owner].outcome)]
  /\ UNCHANGED <<now, lastUserActivity, inFlightRequests, storedCache, storedActivity, pageVars>>

(* The HTTP call fails: network error, status not ok, or no rates in the body *)
HttpFailure(t) ==
  /\ task[t].pc = "http"
  /\ LET noted == [task[t] EXCEPT !.failed = IF task[t].kind # "getRate"
                                                  THEN @ \cup {task[t].base} ELSE @]
     IN Resume(t, Observed(task[t].todo, fetchThrew(noted, "API failed")))
  /\ UNCHANGED <<now, lastUserActivity, storedCache, storedActivity, pageVars>>

(* The primary API answers {rates: {CODE: rate}}; setCachedRate is called *)
PrimaryResponse(t, data) ==
  /\ task[t].pc = "http" /\ task[t].api = "primary"
  /\ task' = [task EXCEPT ![t] = [@ EXCEPT !.pc = "cacheGet", !.ts = now,
                                           !.rates = normalizedRates(data),
                                           !.primaryGave = IF task[t].kind = "getRate"
                                                             THEN data[toUpperCase(task[t].target)]
                                                             ELSE NoRate]]
  /\ UNCHANGED <<now, lastUserActivity, inFlightRequests, storedCache, storedActivity, pageVars>>

(* The fallback API answers {base: {code: rate}}; setCachedRate is called *)
FallbackResponse(t, rates) ==
  /\ task[t].pc = "http" /\ task[t].api = "fallback"
  /\ task' = [task EXCEPT ![t] = [@ EXCEPT !.pc = "cacheGet", !.ts = now, !.rates = rates,
                                           !.fallbackGave = rates[task[t].target]]]
  /\ UNCHANGED <<now, lastUserActivity, inFlightRequests, storedCache, storedActivity, pageVars>>

(* setCachedRate resumes after `await storage.get(...)`: it puts the entry *)
(* into the object it read and calls storage.set; a failed read is caught.  *)
setCachedRateRead(t, readOk) ==
  /\ task[t].pc = "cacheGet"
  /\ IF readOk
       THEN Resume(t, [task[t] EXCEPT !.pc = "cacheSet", !.fault = FALSE,
                          !.snap = [storedCache EXCEPT ![task[t].base] =
                                      Entry(task[t].rates, task[t].ts, task[t].api = "fallback")]])
       ELSE Resume(t, Faulted(Observed(task[t].todo, fetchReturned(task[t])), FALSE))
  /\ UNCHANGED <<now, lastUserActivity, storedCache, storedActivity, pageVars>>

(* setCachedRate resumes after `await storage.set(...)` and returns *)
setCachedRateWrite(t, writeOk) ==
  /\ task[t].pc = "cacheSet"
  /\ storedCache' = IF writeOk THEN task[t].snap ELSE storedCache
  /\ Resume(t, Faulted(Observed(task[t].todo, fetchReturned(task[t])), writeOk))
  /\ UNCHANGED <<now, lastUserActivity, storedActivity, pageVars>>

updateActivityMemoryAfterPersist(t) ==
  /\ task[t].kind = "idle" /\ \A u \in 1..(t - 1) : task[u].kind # "idle"
  /\ task' = [task EXCEPT ![t] = [IdleTask EXCEPT !.kind = "updateActivity", !.pc = "persist", !.ts = now]]
  /\ UNCHANGED <<now, lastUserActivity, inFlightRequests, storedCache, storedActivity, pageVars>>

(* updateActivity up to `await storage.set(...)` *)
updateActivity(t) ==
  /\ task[t].kind = "idle" /\ \A u \in 1..(t - 1) : task[u].kind # "idle"
  /\ lastUserActivity' = now
  /\ task' = [task EXCEPT ![t] = [IdleTask EXCEPT !.kind = "updateActivity", !.pc = "persist", !.ts = now]]
  /\ UNCHANGED <<now, inFlightRequests, storedCache, storedActivity, pageVars>>

(* updateActivity resumes after the storage write *)
updateActivityWrite(t, writeOk) ==
  /\ task[t].kind = "updateActivity" /\ task[t].pc = "persist"
  /\ storedActivity' = IF writeOk THEN task[t].ts ELSE storedActivity
  /\ task' = [task EXCEPT ![t] = Faulted(Done(@, Void), writeOk)]
  /\ UNCHANGED <<now, lastUserActivity, inFlightRequests, storedCache, pageVars>>

(* warmCache up to `await this.getCachedRate('usd')` *)
warmCache(t) ==
  /\ task[t].kind = "idle" /\ \A u \in 1..(t - 1) : task[u].kind # "idle"
  /\ task' = [task EXCEPT ![t] = [IdleTask EXCEPT !.kind = "warm", !.pc = "warmRead", !.base = "usd"]]
  /\ UNCHANGED <<now, lastUserActivity, inFlightRequests, storedCache, storedActivity, pageVars>>

(* warmCache resumes after getCachedRate('usd'), also when prefetchIfStale *)
(* started it                                                              *)
warmCacheResume(t, readOk) ==
  /\ task[t].pc = "warmRead"
  /\ LET stored == IF readOk THEN storedCache["usd"] ELSE NoEntry
         seen == [task[t] EXCEPT
                    !.seenValid = stored.present /\ now - stored.timestamp < cacheTimeout,
                    !.seenActive = IF task[t].kind = "warm"
                                     THEN now - lastUserActivity < inactivityThreshold
                                     ELSE @]
     IN task' = [task EXCEPT ![t] = Faulted(warmCacheBody(seen, getCachedRate("usd", readOk)), readOk)]
  /\ UNCHANGED <<now, lastUserActivity, inFlightRequests, storedCache, storedActivity, pageVars>>

(* prefetchIfStale up to `await this.getCachedRate('usd')`, or to its      *)
(* return when the user is not active                                      *)
prefetchIfStale(t) ==
  /\ task[t].kind = "idle" /\ \A u \in 1..(t - 1) : task[u].kind # "idle"
  /\ LET r == [IdleTask EXCEPT !.kind = "prefetch", !.base = "usd",
                               !.seenActive = now - lastUserActivity < inactivityThreshold]
     IN task' = [task EXCEPT ![t] = IF ~isUserActive THEN Done(r, Void)
                                    ELSE [r EXCEPT !.pc = "prefetchRead"]]
  /\ UNCHANGED <<now, lastUserActivity, inFlightRequests, storedCache, storedActivity, pageVars>>

(* prefetchIfStale resumes after getCachedRate('usd') *)
prefetchIfStaleResume(t, readOk) ==
  /\ task[t].pc = "prefetchRead"
  /\ LET stored == IF readOk THEN storedCache["usd"] ELSE NoEntry
         seen == [task[t] EXCEPT
                    !.seenPresent = stored.present,
                    !.seenStale = stored.present /\ now - stored.timestamp >= staleThreshold,
                    !.seenValid = stored.present /\ now - stored.timestamp < cacheTimeout]
     IN task' = [task EXCEPT ![t] = Faulted(prefetchBody(seen, getCachedRate("usd", readOk)), readOk)]
  /\ UNCHANGED <<now, lastUserActivity, inFlightRequests, storedCache, storedActivity, pageVars>>

(* refreshCacheIfNeeded up to `await storage.get(...)`, or to its return   *)
(* when the user is not active or there is no storage                      *)
refreshCacheIfNeeded(t, hasStorage) ==
  /\ task[t].kind = "idle" /\ \A u \in 1..(t - 1) : task[u].kind # "idle"
  /\ LET r == [IdleTask EXCEPT !.kind = "refresh",
                               !.seenActive = now - lastUserActivity < inactivityThreshold]
     IN task' = [task EXCEPT ![t] = IF ~isUserActive \/ ~hasStorage THEN Done(r, Void)
                                    ELSE [r EXCEPT !.pc = "refreshRead"]]
  /\ UNCHANGED <<now, lastUserActivity, inFlightRequests, storedCache, storedActivity, pageVars>>

(* refreshCacheIfNeeded resumes after the storage read with the cache      *)
(* object, whose keys Object.entries lists in the order `order`; a failed  *)
(* read is caught and ends the method.                                     *)
refreshCacheIfNeededResume(t, readOk, order) ==
  /\ task[t].pc = "refreshRead"
  /\ LET entries == [i \in 1..Len(order) |-> <<order[i], storedCache[order[i]].timestamp>>]
         present(e) == storedCache[e[1]].present
         cached == SelectSeq(entries, present)
         read == [task[t] EXCEPT !.readBases = {b \in Codes : storedCache[b].present}]
     IN task' = [task EXCEPT ![t] =
                   IF readOk THEN Faulted(Observed(cached, refreshLoop([read EXCEPT !.todo = cached])), TRUE)
                   ELSE Faulted(Done(@, Void), FALSE)]
  /\ UNCHANGED <<now, lastUserActivity, inFlightRequests, storedCache, storedActivity, pageVars>>

(* clearCache up to `await storage.remove(...)` *)
clearCache(t) ==
  /\ task[t].kind = "idle" /\ \A u \in 1..(t - 1) : task[u].kind # "idle"
  /\ task' = [task EXCEPT ![t] = [IdleTask EXCEPT !.kind = "clear", !.pc = "clearRemove"]]
  /\ UNCHANGED <<now, lastUserActivity, inFlightRequests, storedCache, storedActivity, pageVars>>

(* clearCache resumes after the removal of the cache record *)
clearCacheResume(t, removeOk) ==
  /\ task[t].pc = "clearRemove"
  /\ LET storage == [cache |-> storedCache, activity |-> storedActivity]
         after == IF removeOk THEN removeCacheRecord(storage) ELSE storage
     IN storedCache' = after.cache /\ storedActivity' = after.activity
  /\ task' = [task EXCEPT ![t] = Faulted(Done(@, Void), removeOk)]
  /\ UNCHANGED <<now, lastUserActivity, inFlightRequests, pageVars>>

(* loadActivity up to `await storage.get('lastUserActivity')`; without a   *)
(* storage object it returns at once                                       *)
loadActivity(t, hasStorage) ==
  /\ task[t].kind = "idle" /\ \A u \in 1..(t - 1) : task[u].kind # "idle"
  /\ LET r == [IdleTask EXCEPT !.kind = "load"]
     IN task' = [task EXCEPT ![t] = IF hasStorage THEN [r EXCEPT !.pc = "loadRead"]
                                    ELSE Done(r, Void)]
  /\ UNCHANGED <<now, lastUserActivity, inFlightRequests, storedCache, storedActivity, pageVars>>

(* loadActivity resumes: result.lastUserActivity || 0, and 0 on a failure *)
loadActivityResume(t, readOk) ==
  /\ task[t].pc = "loadRead"
  /\ lastUserActivity' = IF readOk /\ storedActivity # NoActivity THEN storedActivity ELSE 0
  /\ task' = [task EXCEPT ![t] = Faulted(Done(@, Void), readOk)]
  /\ UNCHANGED <<now, inFlightRequests, storedCache, storedActivity, pageVars>>

(* The orders in which Object.entries may list the bases of the cache *)
KeyOrders == {<<"usd", "eur">>, <<"eur", "usd">>}

(* The currencies callers of this specification convert from *)
FromInputs == {"USD", "usd"}

Next ==
  \/ Tick
  \/ \E t \in Tasks, from \in FromInputs, to \in Inputs : getCurrencyRate(t, from, to)
  \/ \E t \in Tasks, ok \in BOOLEAN : fetchCurrencyRateResume(t, ok)
  \/ \E t \in Tasks : awaitShared(t)
  \/ \E t \in Tasks : HttpFailure(t)
  \/ \E t \in Tasks, data \in PrimaryBodies : PrimaryResponse(t, data)
  \/ \E t \in Tasks, rates \in RateTables : FallbackResponse(t, rates)
  \/ \E t \in Tasks, ok \in BOOLEAN : setCachedRateRead(t, ok)
  \/ \E t \in Tasks, ok \in BOOLEAN : setCachedRateWrite(t, ok)
  \/ \E t \in Tasks : updateActivity(t)
  \/ \E t \in Tasks, ok \in BOOLEAN : updateActivityWrite(t, ok)
  \/ \E t \in Tasks : warmCache(t)
  \/ \E t \in Tasks, ok \in BOOLEAN : warmCacheResume(t, ok)
  \/ \E t \in Tasks : prefetchIfStale(t)
  \/ \E t \in Tasks, ok \in BOOLEAN : prefetchIfStaleResume(t, ok)
  \/ \E t \in Tasks, hasStorage \in BOOLEAN : refreshCacheIfNeeded(t, hasStorage)
  \/ \E t \in Tasks, ok \in BOOLEAN, order \in KeyOrders : refreshCacheIfNeededResume(t, ok, order)
  \/ \E t \in Tasks : clearCache(t)
  \/ \E t \in Tasks, ok \in BOOLEAN : clearCacheResume(t, ok)
  \/ \E t \in Tasks, hasStorage \in BOOLEAN : loadActivity(t, hasStorage)
  \/ \E t \in Tasks, ok \in BOOLEAN : loadActivityResume(t, ok)

Spec == Init /\ [][Next]_vars

----------------------------------------------------------------------------
(* A worker restarted over a store that an earlier run filled for both     *)
(* bases.  The timestamps of the entries are any the store can hold,       *)
(* also later than the clock (the clock was set back since); onStartup has *)
(* run loadActivity, so lastUserActivity is 0 or what was persisted, here  *)
(* a ping at the time of the restart.  The background methods and the      *)
(* activity ping run over it.                                              *)
InitBasesCaches ==
  {[c \in Codes |-> Entry([d \in Codes |-> IF d = c THEN 1 ELSE 2], ts[c], FALSE)] :
     ts \in [Codes -> 0..MaxTime]}

InitBases ==
  /\ now = cacheTimeout
  /\ lastUserActivity \in {0, cacheTimeout}
  /\ storedActivity = IF lastUserActivity = 0 THEN NoActivity ELSE lastUserActivity
  /\ inFlightRequests = [k \in PairKeys |-> NoTask]
  /\ storedCache \in InitBasesCaches
  /\ task = [t \in Tasks |-> IdleTask]
  /\ PageNotLoaded

NextBases ==
  \/ Tick
  \/ \E t \in Tasks : HttpFailure(t)
  \/ \E t \in Tasks, data \in PrimaryBodies : PrimaryResponse(t, data)
  \/ \E t \in Tasks, ok \in BOOLEAN : setCachedRateRead(t, ok)
  \/ \E t \in Tasks, ok \in BOOLEAN : setCachedRateWrite(t, ok)
  \/ \E t \in Tasks : updateActivity(t)
  \/ \E t \in Tasks, ok \in BOOLEAN : updateActivityWrite(t, ok)
  \/ \E t \in Tasks : warmCache(t)
  \/ \E t \in Tasks, ok \in BOOLEAN : warmCacheResume(t, ok)
  \/ \E t \in Tasks, hasStorage \in BOOLEAN : refreshCacheIfNeeded(t, hasStorage)
  \/ \E t \in Tasks, ok \in BOOLEAN, order \in KeyOrders : refreshCacheIfNeededResume(t, ok, order)
  \/ \E t \in Tasks : clearCache(t)
  \/ \E t \in Tasks, ok \in BOOLEAN : clearCacheResume(t, ok)

SpecBases == InitBases /\ [][NextBases]_vars

----------------------------------------------------------------------------
(* The event listeners of the background worker.  The browser starts the   *)
(* worker for an event and stops it when it is idle; the script then runs  *)
(* again from the top: a new CurrencyRateService (lastUserActivity = 0, no *)
(* request in flight) over the persistent store, where an earlier run of   *)
(* the worker left an activity ping.  Which events the browser delivers,   *)
(* and in which order, is not in the hands of the code.                    *)

(* What loadActivity assigns: result.lastUserActivity || 0, 0 on an error *)
restoredActivity(readOk) ==
  IF readOk /\ storedActivity # NoActivity THEN storedActivity ELSE 0

(* The call currencyService.warmCache() of a listener, up to its await *)
callWarmCache(r) == [r EXCEPT !.kind = "warm", !.pc = "warmRead", !.base = "usd"]

(* What a listener does when its `await loadActivity()` has returned:     *)
(* both set up the alarm and the context menu; onStartup then returns,     *)
(* onInstalled goes on to `await chrome.storage.sync.get(...)`.            *)
afterLoadActivity(r) ==
  IF r.handler = "onStartup" THEN Done(r, Void) ELSE [r EXCEPT !.pc = "settingsGet"]

(* onInstalled / onStartup up to the storage.get of loadActivity, or,      *)
(* without a storage object, past loadActivity                             *)
onListenerLoad(t, name, hasStorage) ==
  /\ task[t].kind = "idle" /\ \A u \in 1..(t - 1) : task[u].kind # "idle"
  /\ LET r == [IdleTask EXCEPT !.kind = "load", !.handler = name]
     IN task' = [task EXCEPT ![t] = IF hasStorage THEN [r EXCEPT !.pc = "loadRead"]
                                    ELSE afterLoadActivity(r)]
  /\ UNCHANGED <<now, lastUserActivity, inFlightRequests, storedCache, storedActivity, pageVars>>

onInstalled(t, hasStorage) == onListenerLoad(t, "onInstalled", hasStorage)

onStartup(t, hasStorage) == onListenerLoad(t, "onStartup", hasStorage)

(* loadActivity of a listener resumes after storage.get and returns to the *)
(* listener, which runs on                                                 *)
onListenerLoaded(t, readOk) ==
  /\ task[t].handler # "" /\ task[t].pc = "loadRead"
  /\ lastUserActivity' = restoredActivity(readOk)
  /\ task' = [task EXCEPT ![t] = Faulted(afterLoadActivity(@), readOk)]
  /\ UNCHANGED <<now, inFlightRequests, storedCache, storedActivity, pageVars>>

onInstalledSettingsUncaught(t, readOk, hasSettings) ==
  /\ task[t].handler = "onInstalled" /\ task[t].pc = "settingsGet"
  /\ task' = [task EXCEPT ![t] = IF ~readOk THEN Done(@, Void)
                                    ELSE IF ~hasSettings THEN [@ EXCEPT !.pc = "settingsSet"]
                                    ELSE callWarmCache(@)]
  /\ UNCHANGED <<now, lastUserActivity, inFlightRequests, storedCache, storedActivity, pageVars>>

(* onInstalled resumes after the read of the settings: it writes the       *)
(* default settings when there are none, and calls warmCache otherwise,    *)
(* also when the read threw (the error is caught and logged)               *)
onInstalledSettings(t, readOk, hasSettings) ==
  /\ task[t].handler = "onInstalled" /\ task[t].pc = "settingsGet"
  /\ task' = [task EXCEPT ![t] = IF readOk /\ ~hasSettings
                                    THEN [@ EXCEPT !.pc = "settingsSet"]
                                    ELSE callWarmCache(@)]
  /\ UNCHANGED <<now, lastUserActivity, inFlightRequests, storedCache, storedActivity, pageVars>>

(* onInstalled resumes after the write of the default settings, which may  *)
(* have thrown, and calls warmCache                                        *)
onInstalledSettingsSet(t) ==
  /\ task[t].handler = "onInstalled" /\ task[t].pc = "settingsSet"
  /\ task' = [task EXCEPT ![t] = callWarmCache(@)]
  /\ UNCHANGED <<now, lastUserActivity, inFlightRequests, storedCache, storedActivity, pageVars>>

(* onMessage 'updateActivity': updateActivity() resumes after the storage  *)
(* write, and its `then` calls prefetchIfStale() in the same turn          *)
onMessageUpdateActivityThen(t, writeOk) ==
  /\ task[t].kind = "updateActivity" /\ task[t].pc = "persist"
  /\ storedActivity' = IF writeOk THEN task[t].ts ELSE storedActivity
  /\ LET r == [task[t] EXCEPT !.kind = "prefetch", !.base = "usd", !.ts = 0,
                               !.handler = "onMessage", !.fault = ~writeOk,
                               !.seenActive = now - lastUserActivity < inactivityThreshold]
     IN task' = [task EXCEPT ![t] = IF ~isUserActive THEN Done(r, Void)
                                    ELSE [r EXCEPT !.pc = "prefetchRead"]]
  /\ UNCHANGED <<now, lastUserActivity, inFlightRequests, storedCache, pageVars>>

(* The persistent store a restarted worker finds: a cache as in InitCaches *)
(* and the activity record, absent or holding a ping of this moment.  The  *)
(* listeners taken here are onInstalled, onStartup, the alarm              *)
(* (refreshCacheIfNeeded) and the activity message.                        *)
InitWorker ==
  /\ now = refreshThreshold
  /\ lastUserActivity = 0
  /\ inFlightRequests = [k \in PairKeys |-> NoTask]
  /\ storedCache \in InitCaches
  /\ storedActivity \in {NoActivity, refreshThreshold}
  /\ task = [t \in Tasks |-> IdleTask]
  /\ PageNotLoaded

NextWorker ==
  \/ Tick
  \/ \E t \in Tasks, hasStorage \in BOOLEAN : onInstalled(t, hasStorage)
  \/ \E t \in Tasks, hasStorage \in BOOLEAN : onStartup(t, hasStorage)
  \/ \E t \in Tasks, ok \in BOOLEAN : onListenerLoaded(t, ok)
  \/ \E t \in Tasks, ok \in BOOLEAN, hasSettings \in BOOLEAN : onInstalledSettings(t, ok, hasSettings)
  \/ \E t \in Tasks : onInstalledSettingsSet(t)
  \/ \E t \in Tasks, ok \in BOOLEAN : warmCacheResume(t, ok)
  \/ \E t \in Tasks : updateActivity(t)
  \/ \E t \in Tasks, ok \in BOOLEAN : onMessageUpdateActivityThen(t, ok)
  \/ \E t \in Tasks, ok \in BOOLEAN : prefetchIfStaleResume(t, ok)
  \/ \E t \in Tasks, hasStorage \in BOOLEAN : refreshCacheIfNeeded(t, hasStorage)
  \/ \E t \in Tasks, ok \in BOOLEAN, order \in KeyOrders : refreshCacheIfNeededResume(t, ok, order)
  \/ \E t \in Tasks : HttpFailure(t)
  \/ \E t \in Tasks, data \in PrimaryBodies : PrimaryResponse(t, data)
  \/ \E t \in Tasks, ok \in BOOLEAN : setCachedRateRead(t, ok)
  \/ \E t \in Tasks, ok \in BOOLEAN : setCachedRateWrite(t, ok)

SpecWorker == InitWorker /\ [][NextWorker]_vars

----------------------------------------------------------------------------
(* The conversion detector (utils/unit-converter.js).                       *)
(*                                                                          *)
(* A text is a sequence of tokens: a number, a unit, the separator of a     *)
(* dimension, a currency symbol or code, one blank, a terminator, a word.   *)
(* The patterns of data/conversion-data.js are matched token by token: a    *)
(* unit of a pattern is one of its alternatives followed by the look-ahead, *)
(* so it never ends inside a word.  "nm" is read by the length pattern and, *)
(* the patterns being compiled case-insensitive, by the N[\s.\-]?m of the   *)
(* torque pattern; "pt" is a unit of volume and the name of a time zone.    *)
(* A time is an hour, the colon and two digits of minutes.  Values are      *)
(* counted in thousandths.                                                  *)

Numbers == {"3", "20", "2000"}
LengthUnits == {"m", "ft", "cm", "nm"}
WeightUnits == {"kg"}
TorqueUnits == {"nm"}
VolumeUnits == {"pt"}
TimeZones == {"pt"}
Separators == {"x"}
Colon == ":"
Terminators == {";", Colon}
Blank == " "

(* parseFloat, in thousandths *)
parseFloat(n) == IF n = "3" THEN 3000 ELSE IF n = "20" THEN 20000 ELSE 2000000
currencySymbolToCurrencyCode == [s \in {"$", "EUR"} |-> IF s = "$" THEN "USD" ELSE "EUR"]
CurrencySymbols == DOMAIN currencySymbolToCurrencyCode
OtherWords == {"a"}
Words == LengthUnits \cup WeightUnits \cup VolumeUnits \cup Separators \cup OtherWords \cup {"EUR"}

(* A conversion: its type, the text matched and, of converted, the values   *)
(* and the unit they are displayed in.                                      *)
NoDisplay == [value |-> <<>>, unit |-> ""]
NoResult == [type |-> "null", original |-> <<>>, converted |-> NoDisplay]
Conversion(type, original, converted) == [type |-> type, original |-> original, converted |-> converted]

At(s, i) == IF i \in 1..Len(s) THEN s[i] ELSE ""

RECURSIVE CharLen(_)
CharLen(s) == IF s = <<>> THEN 0 ELSE Len(Head(s)) + CharLen(Tail(s))

(* String.prototype.trim *)
RECURSIVE TrimLeft(_)
TrimLeft(s) == IF s # <<>> /\ Head(s) = Blank THEN TrimLeft(Tail(s)) ELSE s
RECURSIVE TrimRight(_)
TrimRight(s) == IF s # <<>> /\ s[Len(s)] = Blank THEN TrimRight(SubSeq(s, 1, Len(s) - 1)) ELSE s
Trim(s) == TrimRight(TrimLeft(s))

(* \s* *)
RECURSIVE SkipSpaces(_, _)
SkipSpaces(s, i) == IF At(s, i) = Blank THEN SkipSpaces(s, i + 1) ELSE i

(* (?=\s*$|\s*[.,!?;:]|\s*\n|\s*\r) *)
Lookahead(s, i) == LET j == SkipSpaces(s, i) IN j > Len(s) \/ At(s, j) \in Terminators

UnitsOf(unitType) ==
  CASE unitType = "length" -> LengthUnits
    [] unitType = "torque" -> TorqueUnits
    [] unitType = "volume" -> VolumeUnits
    [] unitType = "weight" -> WeightUnits
    [] OTHER -> {}

(* The patterns, element by element: "num" is (\d+(?:\.\d+)?), "ws" is \s*  *)
(* (with the optional hyphen, which no token is), "sep" is the x or "by"   *)
(* between two numbers,                                                     *)
(* "length" and "weight" are the capturing groups of units, "same" is the   *)
(* back reference \2.                                                       *)
dimensionsWithUnitsPattern ==
  <<"num", "ws", "length", "ws", "sep", "ws", "num", "ws", "same", "ws", "sep", "ws", "num", "ws", "same">>
dimensionsPattern ==
  <<"num", "ws", "sep", "ws", "num", "ws", "sep", "ws", "num", "ws", "length">>
UnitPattern(unitType) == <<"num", "ws", unitType>>

(* The pattern from token i on: whether it matches, the token after the     *)
(* match and the unit captured.                                             *)
RECURSIVE MatchFrom(_, _, _, _)
MatchFrom(pat, s, i, unit) ==
  IF pat = <<>> THEN [ok |-> Lookahead(s, i), next |-> i, unit |-> unit]
  ELSE LET e == Head(pat)
           fail == [ok |-> FALSE, next |-> i, unit |-> unit]
       IN CASE e = "ws" -> MatchFrom(Tail(pat), s, SkipSpaces(s, i), unit)
            [] e = "num" -> IF At(s, i) \in Numbers THEN MatchFrom(Tail(pat), s, i + 1, unit) ELSE fail
            [] e = "sep" -> IF At(s, i) \in Separators THEN MatchFrom(Tail(pat), s, i + 1, unit) ELSE fail
            [] e = "same" -> IF At(s, i) = unit THEN MatchFrom(Tail(pat), s, i + 1, unit) ELSE fail
            [] OTHER -> IF At(s, i) \in UnitsOf(e) THEN MatchFrom(Tail(pat), s, i + 1, At(s, i)) ELSE fail

NoMatch == [ok |-> FALSE, start |-> 0, end |-> 0, unit |-> ""]

(* (?:^|\s|...) before the first group: a match begins at the start of the  *)
(* text or with one blank.                                                  *)
MayBegin(s, n) == n = 1 \/ At(s, n - 1) = Blank
MatchStart(n) == IF n = 1 THEN 1 ELSE n - 1

(* The leftmost of the tokens a match can begin at, 0 when there is none *)
Leftmost(begins) == IF begins = {} THEN 0 ELSE CHOOSE x \in begins : \A y \in begins : x <= y

MatchResult(n, m) == [ok |-> TRUE, start |-> MatchStart(n), end |-> m.next - 1, unit |-> m.unit]
MatchAt(pat, s, n) == IF n = 0 THEN NoMatch ELSE MatchResult(n, MatchFrom(pat, s, n, ""))

(* text.match(pattern): the leftmost match *)
MatchPattern(pat, s) ==
  MatchAt(pat, s, Leftmost({n \in 1..Len(s) : MayBegin(s, n) /\ MatchFrom(pat, s, n, "").ok}))

(* The first of two attempts that matched *)
FirstMatch(first, second) == IF first.ok THEN first ELSE second

normalizeUnit(unit) == unit

(* CONVERSION_RATIOS: how many of a unit make one base unit of its type, as *)
(* a fraction rounded to three decimals.                                    *)
CONVERSION_RATIOS ==
  [length |-> [u \in {"m", "cm", "mm", "nm", "km", "in", "ft", "mi"} |->
                 CASE u = "m" -> <<1, 1>> [] u = "cm" -> <<100, 1>> [] u = "mm" -> <<1000, 1>>
                   [] u = "nm" -> <<1000000000, 1>> [] u = "km" -> <<1, 1000>>
                   [] u = "in" -> <<39370, 1000>> [] u = "ft" -> <<3281, 1000>> [] OTHER -> <<1, 1609>>],
   weight |-> [u \in {"kg", "g", "lb", "oz", "t"} |->
                 CASE u = "kg" -> <<1, 1>> [] u = "g" -> <<1000, 1>> [] u = "lb" -> <<2205, 1000>>
                   [] u = "oz" -> <<35274, 1000>> [] OTHER -> <<1, 1000>>],
   volume |-> [u \in {"l", "ml", "pt"} |->
                 CASE u = "l" -> <<1, 1>> [] u = "ml" -> <<1000, 1>> [] OTHER -> <<2113, 1000>>]]

DEFAULT_UNITS == [length |-> "m", weight |-> "kg", volume |-> "l"]

getUnitType(unit) ==
  IF unit \in DOMAIN CONVERSION_RATIOS.length THEN "length"
  ELSE IF unit \in DOMAIN CONVERSION_RATIOS.weight THEN "weight"
  ELSE IF unit \in DOMAIN CONVERSION_RATIOS.volume THEN "volume"
  ELSE Null

(* userSettings[settingKey] || this.defaultUnits[unitType]: the settings    *)
(* hold no volumeUnit.                                                      *)
getDefaultTargetUnit(sourceUnit, settings) ==
  LET unitType == getUnitType(sourceUnit)
  IN IF unitType = Null THEN Null
     ELSE IF unitType = "weight" THEN settings.weightUnit
     ELSE IF unitType = "volume" THEN DEFAULT_UNITS.volume
     ELSE settings.lengthUnit

TargetOf(match, settings) == getDefaultTargetUnit(normalizeUnit(match.unit), settings)

(* value * ratio and value / ratio, rounded down to a thousandth *)
Scaled(value, num, den) == (value \div den) * num + ((value % den) * num) \div den
Times(value, ratio) == Scaled(value, ratio[1], ratio[2])
Over(value, ratio) == Scaled(value, ratio[2], ratio[1])

(* convert, the generic branch: to the base unit, then to the unit asked    *)
(* for; (value / r) * r is value up to the last bit of a double.            *)
convertOfType(value, ratios, from, to) ==
  IF from = to THEN value ELSE Times(Over(value, ratios[from]), ratios[to])
convert(value, from, to) == convertOfType(value, CONVERSION_RATIOS[getUnitType(from)], from, to)

Sized(value, unit) == [value |-> value, unit |-> unit]
One == 1000

(* getBestUnit(value, unitType, defaultUnit) *)
getBestLength(value, units, defaultUnit) ==
  IF value < One /\ defaultUnit = "m"
  THEN IF Times(value, units["cm"]) >= One THEN Sized(Times(value, units["cm"]), "cm")
       ELSE Sized(Times(value, units["mm"]), "mm")
  ELSE IF value < One /\ defaultUnit = "ft" THEN Sized(Times(value, units["in"]), "in")
  ELSE IF value > 1000 * One /\ defaultUnit = "m" THEN Sized(Times(value, units["km"]), "km")
  ELSE IF value > 5280 * One /\ defaultUnit = "ft" THEN Sized(Times(value, units["mi"]), "mi")
  ELSE Sized(value, defaultUnit)

getBestWeight(value, units, defaultUnit) ==
  IF value < One /\ defaultUnit = "kg" THEN Sized(Times(value, units["g"]), "g")
  ELSE IF value < One /\ defaultUnit = "lb" THEN Sized(Times(value, units["oz"]), "oz")
  ELSE IF value > 1000 * One /\ defaultUnit = "kg" THEN Sized(Times(value, units["t"]), "t")
  ELSE Sized(value, defaultUnit)

getBestVolume(value, units, defaultUnit) ==
  IF value < One /\ defaultUnit = "l" THEN Sized(Times(value, units["ml"]), "ml")
  ELSE Sized(value, defaultUnit)

getBestUnit(value, unitType, defaultUnit) ==
  CASE unitType = "length" -> getBestLength(value, CONVERSION_RATIOS.length, defaultUnit)
    [] unitType = "weight" -> getBestWeight(value, CONVERSION_RATIOS.weight, defaultUnit)
    [] unitType = "volume" -> getBestVolume(value, CONVERSION_RATIOS.volume, defaultUnit)
    [] OTHER -> Sized(value, defaultUnit)

Abs(x) == IF x < 0 THEN -x ELSE x
(* Math.abs(a - b) < 0.01 *)
Tolerance == 10
EssentiallySame(a, b) == Abs(a - b) < Tolerance

Matched(text, match) == SubSeq(text, match.start, match.end)

(* The numbers captured by a match, in their order *)
IsNumber(token) == token \in Numbers
Captured(fullMatch) == SelectSeq(fullMatch, IsNumber)
Values(fullMatch) == [i \in 1..Len(Captured(fullMatch)) |-> parseFloat(Captured(fullMatch)[i])]

(* The unit the three axes are displayed in: the one all three are sized    *)
(* to, unless that is the target unit.                                      *)
chosenUnitOfLength(bestLength, bestWidth, bestHeight, targetUnit) ==
  IF bestLength.unit # targetUnit THEN bestLength.unit ELSE targetUnit

chosenUnit(bestLength, bestWidth, bestHeight, targetUnit) ==
  IF bestLength.unit = bestWidth.unit /\ bestWidth.unit = bestHeight.unit /\ bestLength.unit # targetUnit
  THEN bestLength.unit
  ELSE targetUnit

BestOf(value, from, target) == getBestUnit(convert(value, from, target), "length", target)
chosenUnitOf(axes, from, target) ==
  chosenUnit(BestOf(axes[1], from, target), BestOf(axes[2], from, target), BestOf(axes[3], from, target), target)

(* The axes in the unit chosen; nothing when that is the unit they were     *)
(* written in and no value has changed.                                     *)
dimensionFinal(fullMatch, axes, final, from, chosen) ==
  IF chosen = from /\ \A i \in 1..3 : EssentiallySame(final[i], axes[i]) THEN NoResult
  ELSE Conversion("dimensions", fullMatch, Sized(final, chosen))

dimensionChosen(fullMatch, axes, from, chosen) ==
  dimensionFinal(fullMatch, axes, [i \in 1..3 |-> convert(axes[i], from, chosen)], from, chosen)

dimensionResult(text, settings, match, fullMatch) ==
  IF ~match.ok THEN NoResult
  ELSE IF 10 * CharLen(fullMatch) < 8 * CharLen(text) THEN NoResult
  ELSE IF TargetOf(match, settings) = Null THEN NoResult
  ELSE dimensionChosen(fullMatch, Values(fullMatch), normalizeUnit(match.unit),
                       chosenUnitOf(Values(fullMatch), normalizeUnit(match.unit), TargetOf(match, settings)))

dimensionOf(text, settings, match) == dimensionResult(text, settings, match, Matched(text, match))

detectDimension(text, settings) ==
  dimensionOf(text, settings,
              FirstMatch(MatchPattern(dimensionsWithUnitsPattern, text), MatchPattern(dimensionsPattern, text)))

(* (\d+(?:[.,\d' \s]*\d)?): the tokens an amount beginning at i can end at *)
AmountEnds(s, i) ==
  {j \in i..Len(s) : /\ At(s, i) \in Numbers /\ s[j] \in Numbers
                     /\ \A k \in i..j : s[k] \in Numbers \cup {Blank}}

Longest(S) == CHOOSE x \in S : \A y \in S : y <= x

SymbolFirstEnd(s, n, ends) ==
  IF At(s, n) \in CurrencySymbols /\ ends # {}
  THEN [ok |-> TRUE, start |-> MatchStart(n), end |-> Longest(ends), unit |-> s[n]]
  ELSE NoMatch

(* The symbol-first alternative of the currency pattern at token n *)
SymbolFirst(s, n) ==
  SymbolFirstEnd(s, n, {j \in AmountEnds(s, SkipSpaces(s, n + 1)) : Lookahead(s, j + 1)})

SymbolAfter(s, j) == SkipSpaces(s, j + 1)
SymbolLastEnd(s, n, ends) ==
  IF ends # {}
  THEN [ok |-> TRUE, start |-> MatchStart(n), end |-> SymbolAfter(s, Longest(ends)),
        unit |-> s[SymbolAfter(s, Longest(ends))]]
  ELSE NoMatch

(* The symbol-last alternative of the currency pattern at token n *)
SymbolLast(s, n) ==
  SymbolLastEnd(s, n, {j \in AmountEnds(s, n) : /\ At(s, SymbolAfter(s, j)) \in CurrencySymbols
                                               /\ Lookahead(s, SymbolAfter(s, j) + 1)})

CurrencyAt(s, n) == IF n = 0 THEN NoMatch ELSE FirstMatch(SymbolFirst(s, n), SymbolLast(s, n))

MatchCurrency(s) ==
  CurrencyAt(s, Leftmost({n \in 1..Len(s) : MayBegin(s, n) /\ (SymbolFirst(s, n).ok \/ SymbolLast(s, n).ok)}))

(* CurrencyConverter.detectCurrency: the code of a symbol *)
currencyOfSymbol(symbol) ==
  IF symbol \in CurrencySymbols THEN currencySymbolToCurrencyCode[symbol] ELSE "Unknown currency"

currencyResult(text, settings, match) ==
  IF ~match.ok THEN NoResult
  ELSE IF currencyOfSymbol(match.unit) = "Unknown currency" THEN NoResult
  ELSE IF currencyOfSymbol(match.unit) = settings.currencyUnit THEN NoResult
  ELSE Conversion("currency", Matched(text, match), Sized(<<>>, settings.currencyUnit))

detectCurrency(text, settings) == currencyResult(text, settings, MatchCurrency(text))

(* The timezone pattern \b(\d{1,2})(?::(\d{2}))?\s*(AM|PM)?\s*(zone): the    *)
(* hour is a number of one or two digits that begins at a word boundary,    *)
(* the minutes are a colon and a number of two digits, and nothing is asked *)
(* of what follows the zone.                                                *)
HourAt(s, n) == s[n] \in Numbers /\ Len(s[n]) <= 2 /\ (n = 1 \/ s[n - 1] \notin Words \cup Numbers)
MinutesAt(s, n) == At(s, n + 1) = Colon /\ At(s, n + 2) \in Numbers /\ Len(At(s, n + 2)) = 2
ZoneAt(s, k) == At(s, SkipSpaces(s, k)) \in TimeZones
WithMinutes(s, n) == MinutesAt(s, n) /\ ZoneAt(s, n + 3)
TimezoneAt(s, n) ==
  IF n = 0 THEN [ok |-> FALSE, start |-> 0, end |-> 0, unit |-> "", minutes |-> FALSE]
  ELSE IF WithMinutes(s, n)
  THEN [ok |-> TRUE, start |-> n, end |-> SkipSpaces(s, n + 3), unit |-> s[SkipSpaces(s, n + 3)], minutes |-> TRUE]
  ELSE [ok |-> TRUE, start |-> n, end |-> SkipSpaces(s, n + 1), unit |-> s[SkipSpaces(s, n + 1)], minutes |-> FALSE]

MatchTimezone(s) ==
  TimezoneAt(s, Leftmost({n \in 1..Len(s) : HourAt(s, n) /\ (WithMinutes(s, n) \/ ZoneAt(s, n + 1))}))

(* getTimezoneFromOffset(getUserTimezone()): the zone of the user's clock,  *)
(* the target when the settings name none.                                  *)
UserTimezone == "UTC"

(* convertTimezone parses (\d{1,2}):(\d{2}) from the text matched and       *)
(* returns null when there are no minutes in it.                            *)
timezoneResult(text, match, targetTimezone) ==
  IF ~match.ok THEN NoResult
  ELSE IF match.unit = targetTimezone THEN NoResult
  ELSE IF ~match.minutes THEN NoResult
  ELSE Conversion("timezone", Matched(text, match), Sized(<<>>, targetTimezone))

detectTimezone(text, settings) == timezoneResult(text, MatchTimezone(text), UserTimezone)

(* UNIT_PATTERNS holds a pattern for every type of priorityOrder but time;  *)
(* the patterns of area, speed, acceleration, flowRate, pressure and        *)
(* temperature match no token of the model.                                 *)
priorityOrderVolumeFirst ==
  <<"length", "torque", "volume", "timezone", "time", "area", "speed", "acceleration", "flowRate", "pressure",
    "temperature", "weight">>
priorityOrder ==
  <<"length", "torque", "timezone", "time", "area", "speed", "acceleration", "flowRate", "pressure",
    "temperature", "volume", "weight">>
getCompiledPattern(unitType) == IF unitType = "time" THEN Null ELSE unitType

RECURSIVE detectUnitFrom(_, _, _)

(* Skipped when auto-sizing leads back to the unit and the value selected *)
unitSized(order, text, settings, match, value, bestResult) ==
  IF bestResult.unit = normalizeUnit(match.unit) /\ EssentiallySame(bestResult.value, value)
  THEN detectUnitFrom(Tail(order), text, settings)
  ELSE Conversion(Head(order), Matched(text, match), Sized(<<bestResult.value>>, bestResult.unit))

unitConverted(order, text, settings, match, value, targetUnit) ==
  unitSized(order, text, settings, match, value,
            getBestUnit(convert(value, normalizeUnit(match.unit), targetUnit), Head(order), targetUnit))

unitResult(order, text, settings, match) ==
  IF ~match.ok \/ TargetOf(match, settings) = Null \/ normalizeUnit(match.unit) = TargetOf(match, settings)
  THEN detectUnitFrom(Tail(order), text, settings)
  ELSE unitConverted(order, text, settings, match, Values(Matched(text, match))[1], TargetOf(match, settings))

timezoneOr(order, text, settings, timezone) ==
  IF timezone # NoResult THEN timezone ELSE detectUnitFrom(Tail(order), text, settings)

detectUnitFrom(order, text, settings) ==
  IF order = <<>> THEN NoResult
  ELSE IF getCompiledPattern(Head(order)) = Null THEN detectUnitFrom(Tail(order), text, settings)
  ELSE IF Head(order) = "timezone" THEN timezoneOr(order, text, settings, detectTimezone(text, settings))
  ELSE unitResult(order, text, settings, MatchPattern(UnitPattern(Head(order)), text))

detectUnitIn(order, text, settings) == detectUnitFrom(order, text, settings)
detectUnit(text, settings) == detectUnitIn(priorityOrder, text, settings)

(* return [result] of the first detector with a result *)
RECURSIVE FirstResult(_)
FirstResult(results) ==
  IF results = <<>> THEN <<>>
  ELSE IF Head(results) # NoResult THEN <<Head(results)>>
  ELSE FirstResult(Tail(results))

tryDetectorsCurrencyFirst(text, settings) ==
  IF text = <<>> THEN <<>>
  ELSE FirstResult(<<detectCurrency(text, settings), detectDimension(text, settings), detectUnit(text, settings)>>)

tryDetectors(text, settings) ==
  IF text = <<>> THEN <<>>
  ELSE FirstResult(<<detectDimension(text, settings), detectCurrency(text, settings), detectUnit(text, settings)>>)

findConversions(selected, settings) == tryDetectors(Trim(selected), settings)

----------------------------------------------------------------------------
(* The content script (content.js) and its popup (utils/popup-manager.js).  *)
(* content.js holds two content scripts; this is the one that hands the     *)
(* Selection to showConversionPopup(conversions, selection), which is the   *)
(* signature of the PopupManager of utils/popup-manager.js: its listeners   *)
(* are mouseup, click, scroll and resize.  The other one follows further    *)
(* down.                                                                    *)

serviceVars == <<now, lastUserActivity, inFlightRequests, storedCache, storedActivity, task>>

SettingsInputs ==
  {[lengthUnit |-> "m", weightUnit |-> "kg", currencyUnit |-> "USD"],
   [lengthUnit |-> "ft", weightUnit |-> "lb", currencyUnit |-> "EUR"]}

(* The selections: up to MaxPieces pieces in a row, where no two words and  *)
(* no two numbers touch (they would be one word, one number).               *)
MaxPieces == 3
Pieces ==
  {<<"20", " ", "x", " ", "20", " ", "x", " ", "20", " ", "m">>,
   <<"3", "x", "3", "x", "3", "ft">>,
   <<"3", "m", " ", "x", " ", "3", "m", " ", "x", " ", "3", "m">>,
   <<"20", " ", "m">>,
   <<"3", "kg">>,
   <<"$", "3">>,
   <<"3", " ", "EUR">>,
   <<"2000", " ", "m">>,
   <<"20", "cm">>,
   <<"3", "x", "20", "x", "2000", "cm">>,
   <<"2000", "x", "2000", "x", "2000", "m">>,
   <<"3", " ", "nm">>,
   <<"3", " ", "pt">>,
   <<"3", Colon, "20", " ", "pt">>,
   <<" ">>,
   <<";", " ">>,
   <<"a">>}

RECURSIVE Concatenations(_)
Concatenations(n) ==
  IF n = 0 THEN {<<>>}
  ELSE LET shorter == Concatenations(n - 1)
       IN shorter \cup {s \o piece : s \in shorter, piece \in Pieces}

WellTokenised(s) ==
  \A i \in 1..(Len(s) - 1) : /\ ~(s[i] \in Words /\ s[i + 1] \in Words)
                             /\ ~(s[i] \in Numbers /\ s[i + 1] \in Numbers)

Texts == {s \in Concatenations(MaxPieces) : WellTokenised(s)}

(* The selections of the page: nothing to convert, a dimension next to an   *)
(* amount of money, an amount of money alone, one after a word, a length.   *)
PageTexts ==
  {<<"a">>,
   <<"$", "3", ";", " ", "20", " ", "x", " ", "20", " ", "x", " ", "20", " ", "m">>,
   <<"$", "3">>,
   <<"a", " ", "3", " ", "EUR">>,
   <<"20", " ", "m">>}

setupEventListeners ==
  {<<"document", "mouseup">>, <<"document", "click">>, <<"document", "scroll">>, <<"window", "resize">>}

(* init(): the settings are loaded, then the listeners are registered *)
init(settings) ==
  /\ listeners = {}
  /\ userSettings' = settings
  /\ listeners' = setupEventListeners
  /\ dispatched' = NoEvent
  /\ UNCHANGED <<selectedText, popupManager, body, handling, serviceVars, contentVars>>

(* PopupManager.hidePopup on the manager pm and the popups doc of the body *)
WithoutOwn(pm, doc) == IF pm.conversionPopup # NoPopup THEN doc \ {pm.conversionPopup} ELSE doc
orphanedPopups(doc) == doc

hidePopupOwnOnly(pm, doc) ==
  [popupManager |-> [pm EXCEPT !.conversionPopup = NoPopup], body |-> WithoutOwn(pm, doc)]

hidePopup(pm, doc) ==
  [popupManager |-> [pm EXCEPT !.conversionPopup = NoPopup],
   body |-> WithoutOwn(pm, doc) \ orphanedPopups(WithoutOwn(pm, doc))]

(* PopupManager.showConversionPopup after its await: the range of the       *)
(* selection is read (getRangeAt(0) throws when nothing is selected any     *)
(* more), the element p is created, appended, positioned.                   *)
showConversionPopupEnd(p, pm, doc, selected) ==
  IF selected = <<>> THEN [popupManager |-> pm, body |-> doc, pc |-> "done"]
  ELSE [popupManager |-> [pm EXCEPT !.conversionPopup = p], body |-> doc \cup {p}, pc |-> "done"]

Returned(hidden, pc) == [popupManager |-> hidden.popupManager, body |-> hidden.body, pc |-> pc]

showConversionPopupHidden(p, conversions, hasStorage, hidden, selected) ==
  IF conversions = <<>> THEN Returned(hidden, "done")
  ELSE IF hasStorage THEN Returned(hidden, "settings")
  ELSE showConversionPopupEnd(p, hidden.popupManager, hidden.body, selected)

(* PopupManager.showConversionPopup up to its await of the settings; with   *)
(* no chrome.storage it does not await and runs to its end.                 *)
showConversionPopup(p, conversions, hasStorage, pm, doc, selected) ==
  showConversionPopupHidden(p, conversions, hasStorage, hidePopup(pm, doc), selected)

RECURSIVE Join(_)
Join(s) == IF s = <<>> THEN "" ELSE Head(s) \o Join(Tail(s))

(* CurrencyConverter.extractCurrencySymbol: a currency code of three        *)
(* letters, else what is left without the numbers and the blanks.           *)
extractCurrencySymbol(str) ==
  IF \E i \in 1..Len(str) : str[i] = "EUR" THEN "EUR"
  ELSE Join(SelectSeq(str, LAMBDA tok : tok \notin Numbers \cup {Blank}))

(* CurrencyConverter.extractNumber: null without a digit *)
extractNumber(str) == IF \E i \in 1..Len(str) : str[i] \in Numbers THEN "number" ELSE Null

NeedsRates(conversions) == \E i \in 1..Len(conversions) : conversions[i].type = "currency"

(* A selection ends: the mouseup listener starts handleTextSelection, which *)
(* sets its timer.                                                          *)
mouseup(p, text) ==
  /\ <<"document", "mouseup">> \in listeners
  /\ handling[p].pc = "idle" /\ \A q \in 1..(p - 1) : handling[q].pc # "idle"
  /\ selectedText' = text
  /\ handling' = [handling EXCEPT ![p].pc = "timer"]
  /\ dispatched' = [type |-> "mouseup", removed |-> {}]
  /\ UNCHANGED <<userSettings, listeners, popupManager, body, serviceVars, contentVars>>

(* The selection is given up. *)
clearSelection ==
  /\ selectedText # <<>>
  /\ selectedText' = <<>>
  /\ dispatched' = NoEvent
  /\ UNCHANGED <<userSettings, listeners, popupManager, body, handling, serviceVars, contentVars>>

(* The currency branch of handleTextSelection: the selection is a currency  *)
(* other than the target currency, with a number.                           *)
IsCurrencySelection(text, settings) ==
  /\ currencyOfSymbol(extractCurrencySymbol(text)) # "Unknown currency"
  /\ extractNumber(text) # Null
  /\ currencyOfSymbol(extractCurrencySymbol(text)) # settings.currencyUnit

(* The conversions handleTextSelection has for the trimmed selection, and   *)
(* whether findConversions gave them.                                       *)
Selected(text, settings) ==
  IF text = <<>> THEN [conversions |-> <<>>, called |-> FALSE]
  ELSE IF IsCurrencySelection(text, settings)
  THEN [conversions |-> <<Conversion("currency", text, Sized(<<>>, settings.currencyUnit))>>, called |-> FALSE]
  ELSE [conversions |-> findConversions(text, settings), called |-> TRUE]

(* handleTextSelection after the detection: nothing to show hides the       *)
(* popup, a currency waits for its rate, anything else is shown.            *)
AfterDetection(p, conversions, hasStorage, pm, doc, selected) ==
  IF conversions = <<>> THEN Returned(hidePopup(pm, doc), "done")
  ELSE IF NeedsRates(conversions) THEN [popupManager |-> pm, body |-> doc, pc |-> "rates"]
  ELSE showConversionPopup(p, conversions, hasStorage, pm, doc, selected)

(* Observer: the invocations that wait for their rate while another event  *)
(* is handled are noted as overtaken.                                       *)
Overtake(h) == [q \in Handlings |-> IF h[q].pc = "rates" THEN [h[q] EXCEPT !.overtaken = TRUE] ELSE h[q]]

(* handleTextSelection when its timer fires, up to its first await *)
handleTextSelection(p, hasStorage) ==
  /\ handling[p].pc = "timer"
  /\ \E sel \in {Selected(Trim(selectedText), userSettings)} :
       \E next \in {AfterDetection(p, sel.conversions, hasStorage, popupManager, body, selectedText)} :
          /\ handling' = [Overtake(handling) EXCEPT ![p] = [pc |-> next.pc, conversions |-> sel.conversions,
                                                            called |-> sel.called, overtaken |-> FALSE]]
          /\ popupManager' = next.popupManager
          /\ body' = next.body
  /\ dispatched' = NoEvent
  /\ UNCHANGED <<userSettings, listeners, selectedText, serviceVars, contentVars>>

(* processCurrencyConversions has its rate (or its failure): the popup is   *)
(* shown with what it wrote into the conversion.                            *)
processCurrencyConversionsResume(p, hasStorage) ==
  /\ handling[p].pc = "rates"
  /\ \E shown \in {showConversionPopup(p, handling[p].conversions, hasStorage, popupManager, body, selectedText)} :
        /\ handling' = [handling EXCEPT ![p].pc = shown.pc]
        /\ popupManager' = shown.popupManager
        /\ body' = shown.body
  /\ dispatched' = NoEvent
  /\ UNCHANGED <<userSettings, listeners, selectedText, serviceVars, contentVars>>

(* chrome.storage.sync.get of showConversionPopup returns or throws *)
showConversionPopupResume(p) ==
  /\ handling[p].pc = "settings"
  /\ \E shown \in {showConversionPopupEnd(p, popupManager, body, selectedText)} :
        /\ handling' = [handling EXCEPT ![p].pc = shown.pc]
        /\ popupManager' = shown.popupManager
        /\ body' = shown.body
  /\ dispatched' = NoEvent
  /\ UNCHANGED <<userSettings, listeners, selectedText, serviceVars, contentVars>>

(* An event of the page reaches its target; the listener of the content     *)
(* script for it, when registered, is hidePopup.                            *)
dispatchEvent(target, type) ==
  /\ \E hidden \in {IF <<target, type>> \in listeners THEN hidePopup(popupManager, body)
                     ELSE [popupManager |-> popupManager, body |-> body]} :
        /\ popupManager' = hidden.popupManager
        /\ body' = hidden.body
        /\ dispatched' = [type |-> type, removed |-> body \ hidden.body]
  /\ handling' = IF <<target, type>> \in listeners /\ type = "click" THEN Overtake(handling) ELSE handling
  /\ UNCHANGED <<userSettings, listeners, selectedText, serviceVars, contentVars>>

onClick == dispatchEvent("document", "click")
onScroll == dispatchEvent("document", "scroll")
onResize == dispatchEvent("window", "resize")

InitPage ==
  /\ now = inactivityThreshold
  /\ lastUserActivity = 0
  /\ inFlightRequests = [k \in PairKeys |-> NoTask]
  /\ storedCache = EmptyCache
  /\ storedActivity = NoActivity
  /\ task = [t \in Tasks |-> IdleTask]
  /\ PageNotLoaded

NextPage ==
  \/ \E settings \in SettingsInputs : init(settings)
  \/ \E p \in Handlings, text \in PageTexts : mouseup(p, text)
  \/ clearSelection
  \/ \E p \in Handlings, hasStorage \in BOOLEAN : handleTextSelection(p, hasStorage)
  \/ \E p \in Handlings, hasStorage \in BOOLEAN : processCurrencyConversionsResume(p, hasStorage)
  \/ \E p \in Handlings : showConversionPopupResume(p)
  \/ onClick
  \/ onScroll
  \/ onResize

SpecPage == InitPage /\ [][NextPage]_vars

(* The test runner's case 'singleSelection': findConversions on the        *)
(* selected text as it is, with the settings of the case.                   *)
runTestCase(p) ==
  /\ handling[p].pc = "idle" /\ \A q \in 1..(p - 1) : handling[q].pc # "idle"
  /\ handling' = [handling EXCEPT ![p] = [pc |-> "done", conversions |-> findConversions(selectedText, userSettings),
                                          called |-> TRUE, overtaken |-> FALSE]]
  /\ dispatched' = NoEvent
  /\ UNCHANGED <<userSettings, listeners, selectedText, popupManager, body, serviceVars, contentVars>>

(* The detector on every selection: the page is set up, a selection has     *)
(* just ended and the first handleTextSelection waits for its timer.        *)
InitDetector ==
  /\ now = inactivityThreshold
  /\ lastUserActivity = 0
  /\ inFlightRequests = [k \in PairKeys |-> NoTask]
  /\ storedCache = EmptyCache
  /\ storedActivity = NoActivity
  /\ task = [t \in Tasks |-> IdleTask]
  /\ userSettings \in SettingsInputs
  /\ listeners = setupEventListeners
  /\ selectedText \in Texts
  /\ popupManager = NewPopupManager
  /\ body = {}
  /\ handling = [p \in Handlings |-> IF p = 1 THEN [IdleHandling EXCEPT !.pc = "timer"] ELSE IdleHandling]
  /\ dispatched = [type |-> "mouseup", removed |-> {}]
  /\ lastActivityPing = 0
  /\ currentlyDisplayedText = NullText
  /\ extensionContext = TRUE
  /\ outbox = 0
  /\ pinged = <<>>
  /\ interacted = NoActivity
  /\ MenuNotCreated

NextDetector ==
  \/ \E p \in Handlings : runTestCase(p)
  \/ \E p \in Handlings, hasStorage \in BOOLEAN : handleTextSelection(p, hasStorage)
  \/ \E p \in Handlings, hasStorage \in BOOLEAN : processCurrencyConversionsResume(p, hasStorage)
  \/ \E p \in Handlings : showConversionPopupResume(p)

SpecDetector == InitDetector /\ [][NextDetector]_vars

----------------------------------------------------------------------------
(* The content script that pings the background worker (content.js, lines   *)
(* 1-307).  Its listeners are mouseup (handleTextSelection) and click       *)
(* (handleClick); both call pingActivityToBackground.  It asks the worker   *)
(* for the rate and hands the bounding rectangle of the selection to        *)
(* showConversionPopup.  The PopupManager of utils/popup-manager.js takes   *)
(* that argument for a Selection: after hidePopup() and the read of the     *)
(* settings, selection.getRangeAt(0) throws a TypeError, which              *)
(* handleTextSelection catches.                                             *)

ACTIVITY_PING_THROTTLE == 1

isExtensionContextValid == extensionContext

(* pingActivityToBackground at time t with lastActivityPing = last: whether *)
(* the updateActivity message is sent.                                      *)
pingActivityToBackgroundAtThrottle(valid, t, last) == valid /\ (t - last >= ACTIVITY_PING_THROTTLE)

pingActivityToBackground(valid, t, last) == valid /\ (t - last > ACTIVITY_PING_THROTTLE)

(* The call of pingActivityToBackground in a listener *)
Ping(sent) ==
  /\ lastActivityPing' = IF sent THEN now ELSE lastActivityPing
  /\ outbox' = IF sent THEN outbox + 1 ELSE outbox
  /\ pinged' = IF sent THEN Append(pinged, now) ELSE pinged
  /\ interacted' = now

setupEventListenersWithClick == {<<"document", "mouseup">>, <<"document", "click">>}

(* handleClick: the ping, then the popup is hidden unless the click was on  *)
(* the popup.                                                               *)
handleClick(onPopup) ==
  /\ <<"document", "click">> \in listeners
  /\ onPopup => body # {}
  /\ Ping(pingActivityToBackground(isExtensionContextValid, now, lastActivityPing))
  /\ \E hidden \in {IF onPopup THEN [popupManager |-> popupManager, body |-> body]
                     ELSE hidePopup(popupManager, body)} :
        /\ popupManager' = hidden.popupManager
        /\ body' = hidden.body
        /\ dispatched' = [type |-> "click", removed |-> body \ hidden.body]
  /\ currentlyDisplayedText' = IF onPopup THEN currentlyDisplayedText ELSE NullText
  /\ handling' = IF onPopup THEN handling ELSE Overtake(handling)
  /\ UNCHANGED <<menuVars, userSettings, listeners, selectedText, extensionContext, serviceVars>>

(* The conversion objects of this script: a currency conversion is created  *)
(* with needsAsyncProcessing: true and converted: '...'.                    *)
WithPlaceholder(c) ==
  [type |-> c.type, original |-> c.original, needsAsyncProcessing |-> c.type = "currency",
   converted |-> IF c.type = "currency" THEN "..." ELSE "converted"]

Placeholders(conversions) == [i \in 1..Len(conversions) |-> WithPlaceholder(conversions[i])]

(* The conversions handleTextSelection has for the trimmed selection *)
SelectedWithPing(text, settings) ==
  IF IsCurrencySelection(text, settings)
  THEN [conversions |-> <<WithPlaceholder(Conversion("currency", text, Sized(<<>>, settings.currencyUnit)))>>, called |-> FALSE]
  ELSE [conversions |-> Placeholders(findConversions(text, settings)), called |-> TRUE]

(* What a run of handleTextSelection leaves: the popup manager, the popups  *)
(* of the body, currentlyDisplayedText and where the invocation is.         *)
Left(hidden, text, pc) ==
  [popupManager |-> hidden.popupManager, body |-> hidden.body, currentlyDisplayedText |-> text, pc |-> pc]

(* showConversionPopup(conversions, selectionRect) of handleTextSelection:  *)
(* hidePopup(), then the read of the settings when the extension context is *)
(* valid; without it, the defaults are taken at once and getRangeAt throws: *)
(* the catch of the branch after findConversions hides the popup and resets *)
(* currentlyDisplayedText, the catch of the currency branch only logs.      *)
showConversionPopupRect(valid, called, hidden, text) ==
  IF valid THEN Left(hidden, text, "settings")
  ELSE Left(hidden, IF called THEN NullText ELSE text, "done")

(* processCurrencyConversions up to its first await, and what follows when  *)
(* it returns without one: a currency conversion is skipped when the        *)
(* extension context is not valid, and is asked of the worker otherwise.    *)
processCurrencyConversionsViaWorker(valid, sel, pm, doc, text) ==
  IF sel.conversions = <<>> THEN Left(hidePopup(pm, doc), NullText, "done")
  ELSE IF valid /\ (\E i \in 1..Len(sel.conversions) : sel.conversions[i].needsAsyncProcessing)
  THEN [popupManager |-> pm, body |-> doc, currentlyDisplayedText |-> text, pc |-> "rates"]
  ELSE showConversionPopupRect(valid, sel.called, hidePopup(pm, doc), text)

(* handleTextSelection (mouseup listener) up to its first await *)
handleTextSelectionWithPing(p, text) ==
  /\ <<"document", "mouseup">> \in listeners
  /\ handling[p].pc = "idle" /\ \A q \in 1..(p - 1) : handling[q].pc # "idle"
  /\ selectedText' = text
  /\ Ping(pingActivityToBackground(isExtensionContextValid, now, lastActivityPing))
  /\ \E sel \in {IF Trim(text) = <<>> \/ (currentlyDisplayedText = Trim(text) /\ popupManager.conversionPopup # NoPopup)
                  THEN [conversions |-> <<>>, called |-> FALSE]
                  ELSE SelectedWithPing(Trim(text), userSettings)} :
       \E left \in {IF currentlyDisplayedText = Trim(text) /\ popupManager.conversionPopup # NoPopup
                     THEN Left([popupManager |-> popupManager, body |-> body], currentlyDisplayedText, "done")
                     ELSE processCurrencyConversionsViaWorker(isExtensionContextValid, sel, popupManager, body,
                                                              currentlyDisplayedText)} :
          /\ handling' = [Overtake(handling) EXCEPT ![p] = [pc |-> left.pc, conversions |-> sel.conversions,
                                                            called |-> sel.called, overtaken |-> FALSE]]
          /\ popupManager' = left.popupManager
          /\ body' = left.body
          /\ currentlyDisplayedText' = left.currentlyDisplayedText
  /\ dispatched' = [type |-> "mouseup", removed |-> {}]
  /\ UNCHANGED <<menuVars, userSettings, listeners, extensionContext, serviceVars>>

(* What processCurrencyConversions writes into a currency conversion for    *)
(* the response of the worker: a rate above 0, no rate, or an error.        *)
Responses == {"rate", "no rate", "error"}

Processed(c, response) ==
  IF c.type = "currency" /\ c.needsAsyncProcessing
  THEN [c EXCEPT !.needsAsyncProcessing = FALSE,
                 !.converted = CASE response = "rate" -> "amount"
                                 [] response = "no rate" -> "Rate unavailable"
                                 [] OTHER -> "Conversion failed"]
  ELSE c

(* The worker has answered the getCurrencyRate message:                     *)
(* processCurrencyConversions fills in the conversion and returns, and      *)
(* handleTextSelection calls showConversionPopup.                           *)
processCurrencyConversionsViaWorkerResume(p, response) ==
  /\ handling[p].pc = "rates"
  /\ \E left \in {showConversionPopupRect(isExtensionContextValid, handling[p].called,
                                          hidePopup(popupManager, body), currentlyDisplayedText)} :
        /\ handling' = [handling EXCEPT ![p].pc = left.pc,
                                        ![p].conversions = [i \in 1..Len(@) |-> Processed(@[i], response)]]
        /\ popupManager' = left.popupManager
        /\ body' = left.body
        /\ currentlyDisplayedText' = left.currentlyDisplayedText
  /\ dispatched' = NoEvent
  /\ UNCHANGED <<menuVars, userSettings, listeners, selectedText, lastActivityPing, extensionContext, outbox, pinged,
                 interacted, serviceVars>>

(* showConversionPopup resumes after the read of the settings and throws at *)
(* selection.getRangeAt(0); handleTextSelection catches the error.          *)
showConversionPopupRejects(p) ==
  /\ handling[p].pc = "settings"
  /\ \E hidden \in {IF handling[p].called THEN hidePopup(popupManager, body)
                     ELSE [popupManager |-> popupManager, body |-> body]} :
        /\ popupManager' = hidden.popupManager
        /\ body' = hidden.body
  /\ currentlyDisplayedText' = IF handling[p].called THEN NullText ELSE currentlyDisplayedText
  /\ handling' = [handling EXCEPT ![p].pc = "done"]
  /\ dispatched' = NoEvent
  /\ UNCHANGED <<menuVars, userSettings, listeners, selectedText, lastActivityPing, extensionContext, outbox, pinged,
                 interacted, serviceVars>>

(* The extension is reloaded or updated while the page stays open: the      *)
(* content script has lost its extension context.                           *)
invalidateContext ==
  /\ extensionContext
  /\ extensionContext' = FALSE
  /\ dispatched' = NoEvent
  /\ UNCHANGED <<menuVars, userSettings, listeners, selectedText, popupManager, body, handling, lastActivityPing,
                 currentlyDisplayedText, outbox, pinged, interacted, serviceVars>>

(* The worker receives an updateActivity message: onMessage calls           *)
(* updateActivity(), which runs up to `await storage.set(...)`.             *)
onMessageUpdateActivity(t) ==
  /\ outbox > 0
  /\ outbox' = outbox - 1
  /\ task[t].kind = "idle" /\ \A u \in 1..(t - 1) : task[u].kind # "idle"
  /\ lastUserActivity' = now
  /\ task' = [task EXCEPT ![t] = [IdleTask EXCEPT !.kind = "updateActivity", !.pc = "persist", !.ts = now]]
  /\ dispatched' = NoEvent
  /\ UNCHANGED <<menuVars, now, inFlightRequests, storedCache, storedActivity, userSettings, listeners, selectedText,
                 popupManager, body, handling, lastActivityPing, currentlyDisplayedText, extensionContext,
                 pinged, interacted>>

(* The selections of this page: a click without a selection, an amount of   *)
(* money, a length, a word.                                                 *)
ContentTexts == {<<>>, <<"3", " ", "EUR">>, <<"20", " ", "m">>, <<"a">>}

(* The page is loaded and init() has run; Date.now() is far more than       *)
(* ACTIVITY_PING_THROTTLE after lastActivityPing = 0.                       *)
InitContent ==
  /\ now = ACTIVITY_PING_THROTTLE + 1
  /\ lastUserActivity = 0
  /\ inFlightRequests = [k \in PairKeys |-> NoTask]
  /\ storedCache = EmptyCache
  /\ storedActivity = NoActivity
  /\ task = [t \in Tasks |-> IdleTask]
  /\ userSettings = [lengthUnit |-> "ft", weightUnit |-> "lb", currencyUnit |-> "USD"]
  /\ listeners = setupEventListenersWithClick
  /\ selectedText = <<>>
  /\ popupManager = NewPopupManager
  /\ body = {}
  /\ handling = [p \in Handlings |-> IdleHandling]
  /\ dispatched = NoEvent
  /\ lastActivityPing = 0
  /\ currentlyDisplayedText = NullText
  /\ extensionContext = TRUE
  /\ outbox = 0
  /\ pinged = <<>>
  /\ interacted = NoActivity
  /\ MenuNotCreated

(* The page alone: the messages it sends stay in the outbox. *)
NextContent ==
  \/ Tick
  \/ \E onPopup \in BOOLEAN : handleClick(onPopup)
  \/ \E p \in Handlings, text \in ContentTexts : handleTextSelectionWithPing(p, text)
  \/ \E p \in Handlings, response \in Responses : processCurrencyConversionsViaWorkerResume(p, response)
  \/ \E p \in Handlings : showConversionPopupRejects(p)
  \/ invalidateContext

SpecContent == InitContent /\ [][NextContent]_vars

(* The page with the worker: clicks and selections without a conversion,    *)
(* and the worker's handling of the updateActivity messages.                *)
ActivityTexts == {<<>>, <<"a">>}

NextActivity ==
  \/ Tick
  \/ \E onPopup \in BOOLEAN : handleClick(onPopup)
  \/ \E p \in Handlings, text \in ActivityTexts : handleTextSelectionWithPing(p, text)
  \/ invalidateContext
  \/ \E t \in Tasks : onMessageUpdateActivity(t)
  \/ \E t \in Tasks, ok \in BOOLEAN : onMessageUpdateActivityThen(t, ok)
  \/ \E t \in Tasks, ok \in BOOLEAN : prefetchIfStaleResume(t, ok)
  \/ \E t \in Tasks, ok \in BOOLEAN : warmCacheResume(t, ok)
  \/ \E t \in Tasks : HttpFailure(t)
  \/ \E t \in Tasks, data \in PrimaryBodies : PrimaryResponse(t, data)
  \/ \E t \in Tasks, ok \in BOOLEAN : setCachedRateRead(t, ok)
  \/ \E t \in Tasks, ok \in BOOLEAN : setCachedRateWrite(t, ok)

SpecActivity == InitContent /\ [][NextActivity]_vars

----------------------------------------------------------------------------
(* The context menu of the extension icon (createContextMenu of the         *)
(* background worker).  chrome invokes the callback of a call once the call *)
(* has completed, with chrome.runtime.lastError set when it failed.         *)

MaxCalls == 3

Awaiting(menus, callbacks) ==
  [menus EXCEPT !.pending = [c \in Callbacks |-> IF c \in callbacks THEN @[c] + 1 ELSE @[c]]]
Invoked(menus, callback) == [menus EXCEPT !.pending[callback] = @ - 1]

MenuFrame ==
  UNCHANGED <<serviceVars, userSettings, listeners, selectedText, popupManager, body, handling, dispatched,
              lastActivityPing, currentlyDisplayedText, extensionContext, outbox, pinged, interacted>>

(* createContextMenu(): returns at once while the guard is set, else sets   *)
(* it and asks for the removal of the items there are.                      *)
createContextMenu ==
  /\ contextMenus.accepted + contextMenus.ignored < MaxCalls
  /\ IF isCreatingContextMenu
     THEN /\ contextMenus' = [contextMenus EXCEPT !.ignored = @ + 1, !.lastCall = "ignored"]
          /\ UNCHANGED isCreatingContextMenu
     ELSE /\ isCreatingContextMenu' = TRUE
          /\ contextMenus' = [Awaiting(contextMenus, {"removeAll"}) EXCEPT !.accepted = @ + 1, !.lastCall = "accepted"]
  /\ MenuFrame

(* The callback of removeAll: a removal error is logged; the settings item  *)
(* is asked for and then the extension's own info, each in a try block of   *)
(* its own, and the catch of the second one clears the guard.               *)
removeAllCallback(error, createThrows, getSelfThrows) ==
  /\ contextMenus.pending["removeAll"] > 0
  /\ contextMenus' =
       Awaiting([Invoked(contextMenus, "removeAll") EXCEPT !.items = IF error THEN @ ELSE {}],
                (IF createThrows THEN {} ELSE {"open-settings"}) \cup (IF getSelfThrows THEN {} ELSE {"getSelf"}))
  /\ isCreatingContextMenu' = IF getSelfThrows THEN FALSE ELSE isCreatingContextMenu
  /\ MenuFrame

(* The callback of getSelf.  The two creations of a development install     *)
(* are in no try block: contextMenus.create reports a failed creation       *)
(* through lastError in its callback.                                       *)
getSelfCallbackNoReset(error) ==
  /\ contextMenus.pending["getSelf"] > 0
  /\ IF error
     THEN /\ isCreatingContextMenu' = FALSE
          /\ contextMenus' = Invoked(contextMenus, "getSelf")
     ELSE /\ contextMenus' = IF contextMenus.installType = "development"
                             THEN Awaiting(Invoked(contextMenus, "getSelf"), {"clear-currency-cache", "reload-extension"})
                             ELSE Invoked(contextMenus, "getSelf")
          /\ UNCHANGED isCreatingContextMenu
  /\ MenuFrame

getSelfCallback(error) ==
  /\ contextMenus.pending["getSelf"] > 0
  /\ IF error
     THEN /\ isCreatingContextMenu' = FALSE
          /\ contextMenus' = Invoked(contextMenus, "getSelf")
     ELSE IF contextMenus.installType = "development"
     THEN /\ contextMenus' = Awaiting(Invoked(contextMenus, "getSelf"), {"clear-currency-cache", "reload-extension"})
          /\ UNCHANGED isCreatingContextMenu
     ELSE /\ isCreatingContextMenu' = FALSE
          /\ contextMenus' = Invoked(contextMenus, "getSelf")
  /\ MenuFrame

(* The callback of contextMenus.create for the item id: the item is there   *)
(* unless the creation failed, as it does for an id that is there already.  *)
Created(menus, id, error) == [Invoked(menus, id) EXCEPT !.items = IF error THEN @ ELSE @ \cup {id}]
MayCallBack(id, error) == contextMenus.pending[id] > 0 /\ (id \in contextMenus.items => error)

createSettingsCallback(error) ==
  /\ MayCallBack("open-settings", error)
  /\ contextMenus' = Created(contextMenus, "open-settings", error)
  /\ UNCHANGED isCreatingContextMenu
  /\ MenuFrame

createCacheCallback(error) ==
  /\ MayCallBack("clear-currency-cache", error)
  /\ contextMenus' = Created(contextMenus, "clear-currency-cache", error)
  /\ UNCHANGED isCreatingContextMenu
  /\ MenuFrame

(* The callback of the last item clears the guard *)
createReloadCallback(error) ==
  /\ MayCallBack("reload-extension", error)
  /\ contextMenus' = Created(contextMenus, "reload-extension", error)
  /\ isCreatingContextMenu' = FALSE
  /\ MenuFrame

InitMenu ==
  /\ now = 0
  /\ lastUserActivity = 0
  /\ inFlightRequests = [k \in PairKeys |-> NoTask]
  /\ storedCache = EmptyCache
  /\ storedActivity = NoActivity
  /\ task = [t \in Tasks |-> IdleTask]
  /\ userSettings = Null
  /\ listeners = {}
  /\ selectedText = <<>>
  /\ popupManager = NewPopupManager
  /\ body = {}
  /\ handling = [p \in Handlings |-> IdleHandling]
  /\ dispatched = NoEvent
  /\ lastActivityPing = 0
  /\ currentlyDisplayedText = NullText
  /\ extensionContext = TRUE
  /\ outbox = 0
  /\ pinged = <<>>
  /\ interacted = NoActivity
  /\ isCreatingContextMenu = FALSE
  /\ \E installType \in InstallTypes : contextMenus = NoContextMenus(installType)

removeAllCalledBack == \E error, createThrows, getSelfThrows \in BOOLEAN : removeAllCallback(error, createThrows, getSelfThrows)
getSelfCalledBack == \E error \in BOOLEAN : getSelfCallback(error)
createSettingsCalledBack == \E error \in BOOLEAN : createSettingsCallback(error)
createCacheCalledBack == \E error \in BOOLEAN : createCacheCallback(error)
createReloadCalledBack == \E error \in BOOLEAN : createReloadCallback(error)

NextMenu ==
  \/ createContextMenu
  \/ removeAllCalledBack
  \/ getSelfCalledBack
  \/ createSettingsCalledBack
  \/ createCacheCalledBack
  \/ createReloadCalledBack

(* Every callback handed to chrome is invoked in the end *)
SpecMenu ==
  /\ InitMenu /\ [][NextMenu]_vars
  /\ WF_vars(removeAllCalledBack) /\ WF_vars(getSelfCalledBack) /\ WF_vars(createSettingsCalledBack)
  /\ WF_vars(createCacheCalledBack) /\ WF_vars(createReloadCalledBack)

----------------------------------------------------------------------------
(* Properties *)

RECURSIVE SumOver(_, _)
SumOver(S, field) ==
  IF S = {} THEN 0
  ELSE LET t == CHOOSE x \in S : TRUE
       IN (IF field = "primary" THEN task[t].nPrimary ELSE task[t].nFallback)
          + SumOver(S \ {t}, field)

(* The getCurrencyRate calls that ran _fetchCurrencyRate themselves *)
Computing(t) == task[t].kind = "getRate" /\ task[t].owner = t
(* The calls issued while the call h for the same pair was in flight, and h *)
Burst(h) == {t \in Tasks : task[t].kind = "getRate" /\ task[t].burst = h}
RateUnavailable == Error("Currency rate unavailable")
HttpCalls(t) == task[t].nPrimary + task[t].nFallback

(* C1: at every point of every execution, for each (from, to) pair, compared *)
(* case-insensitively, at most one fetch computation started by              *)
(* getCurrencyRate is outstanding.                                           *)
C1_OneFetchPerPair ==
  \A k \in PairKeys :
    Cardinality({t \in Tasks : /\ Computing(t) /\ task[t].pc # "done"
                               /\ pairKey(task[t].base, task[t].target) = k}) <= 1

(* Two calls for one pair overlap: one computes (its HTTP call is out), the *)
(* other was issued meanwhile.                                              *)
C1_Witness ==
  \E h \in Tasks, w \in Tasks :
    /\ h # w /\ task[h].kind = "getRate" /\ task[h].pc = "http"
    /\ task[w].kind = "getRate" /\ task[w].burst = h /\ task[w].pc # "done"

(* C2 as stated: for any burst of concurrent getCurrencyRate(a, b) calls    *)
(* issued while the first is in flight, the HTTP client is invoked at most  *)
(* once in total.                                                           *)
C2_Original ==
  \A h \in Tasks : SumOver(Burst(h), "primary") + SumOver(Burst(h), "fallback") <= 1

(* C2 amended: for any such burst each API is called at most once, the      *)
(* primary once and, when it fails or lacks the rate, the fallback once: at *)
(* most two HTTP calls in total.                                            *)
C2_BurstCallsEachApiOnce ==
  \A h \in Tasks :
    /\ SumOver(Burst(h), "primary") <= 1
    /\ SumOver(Burst(h), "fallback") <= 1
    /\ SumOver(Burst(h), "fallback") <= SumOver(Burst(h), "primary")

(* A burst of two calls has finished after a primary and a fallback call *)
C2_Witness ==
  \E h \in Tasks, w \in Tasks :
    /\ h # w /\ w \in Burst(h) /\ h \in Burst(h)
    /\ task[h].pc = "done" /\ task[w].pc = "done"
    /\ SumOver(Burst(h), "primary") = 1 /\ SumOver(Burst(h), "fallback") = 1

(* C3: all callers of getCurrencyRate for one pair that overlap one         *)
(* in-flight fetch receive the same outcome: the same RateResult (rate,     *)
(* usedFallback, fromCache, stale) or the same error.                       *)
C3_SameOutcome ==
  \A h \in Tasks : \A w \in Burst(h) :
    (task[h].pc = "done" /\ task[w].pc = "done") => task[w].outcome = task[h].outcome

(* Two overlapping calls have both returned a rate *)
C3_Witness ==
  \E h \in Tasks : \E w \in Burst(h) :
    /\ h # w /\ task[h].pc = "done" /\ task[w].pc = "done"
    /\ task[w].outcome.kind = "ok"

(* C4: getCurrencyRate fails only with 'Currency rate unavailable', and     *)
(* only when neither API supplied the rate: a storage failure, a failure of *)
(* the primary API alone or of the fallback API alone never reaches the     *)
(* caller as an error.                                                      *)
C4_OnlyRateUnavailable ==
  \A t \in Tasks :
    (task[t].kind = "getRate" /\ task[t].outcome.kind = "error") =>
      /\ task[t].outcome = RateUnavailable
      /\ Computing(t) => (task[t].primaryGave = NoRate /\ task[t].fallbackGave = NoRate)

(* A call has failed *)
C4_Witness ==
  \E t \in Tasks : task[t].kind = "getRate" /\ task[t].outcome.kind = "error"

(* C5: if neither API supplies the target rate (both fail, or answer without *)
(* it) and the cache entry read for the base holds no rate for the target,   *)
(* getCurrencyRate fails with 'Currency rate unavailable'.                   *)
C5_UnavailableWithoutCache ==
  \A t \in Tasks :
    (/\ Computing(t) /\ task[t].pc = "done"
     /\ task[t].seenRate = NoRate
     /\ task[t].primaryGave = NoRate /\ task[t].fallbackGave = NoRate)
    => task[t].outcome = RateUnavailable

(* Both APIs were called, neither gave the rate, nothing was cached *)
C5_Witness ==
  \E t \in Tasks :
    /\ Computing(t) /\ task[t].pc = "done" /\ task[t].seenRate = NoRate
    /\ task[t].nPrimary = 1 /\ task[t].nFallback = 1
    /\ task[t].primaryGave = NoRate /\ task[t].fallbackGave = NoRate

(* C6: if both APIs fail and the cache entry read for the base is expired   *)
(* and holds a rate for the target, getCurrencyRate returns that rate with  *)
(* fromCache = true and stale = true.                                       *)
C6_StaleWhenApisFail ==
  \A t \in Tasks :
    (/\ Computing(t) /\ task[t].pc = "done"
     /\ task[t].seenRate # NoRate /\ ~task[t].seenValid
     /\ task[t].nPrimary = 1 /\ task[t].nFallback = 1
     /\ task[t].primaryGave = NoRate /\ task[t].fallbackGave = NoRate)
    => /\ task[t].outcome.kind = "ok"
       /\ task[t].outcome.rate = task[t].seenRate
       /\ task[t].outcome.fromCache /\ task[t].outcome.stale

C6_Witness ==
  \E t \in Tasks :
    /\ Computing(t) /\ task[t].pc = "done"
    /\ task[t].seenRate # NoRate /\ ~task[t].seenValid
    /\ task[t].nPrimary = 1 /\ task[t].nFallback = 1
    /\ task[t].primaryGave = NoRate /\ task[t].fallbackGave = NoRate

(* C7: if a fetch is made and the primary API does not supply the rate (it  *)
(* fails) while the fallback API returns a rate for the target,             *)
(* getCurrencyRate returns the fallback's rate with usedFallback = true and *)
(* fromCache = false.                                                       *)
C7_FallbackOnPrimaryFailure ==
  \A t \in Tasks :
    (/\ Computing(t) /\ task[t].pc = "done"
     /\ task[t].nPrimary = 1 /\ task[t].primaryGave = NoRate
     /\ task[t].fallbackGave # NoRate)
    => /\ task[t].outcome.kind = "ok"
       /\ task[t].outcome.rate = task[t].fallbackGave
       /\ task[t].outcome.usedFallback /\ ~task[t].outcome.fromCache

C7_Witness ==
  \E t \in Tasks :
    /\ Computing(t) /\ task[t].pc = "done"
    /\ task[t].nPrimary = 1 /\ task[t].primaryGave = NoRate
    /\ task[t].fallbackGave # NoRate

(* C8: if the cache entry read for the base is valid (age < cacheTimeout)   *)
(* and holds a rate for the target, getCurrencyRate returns that rate with  *)
(* fromCache = true and makes no HTTP call, whether or not the user is      *)
(* active.                                                                  *)
C8_ValidCacheHit ==
  \A t \in Tasks :
    (Computing(t) /\ task[t].seenValid /\ task[t].seenRate # NoRate)
    => /\ task[t].pc = "done"
       /\ task[t].outcome.kind = "ok"
       /\ task[t].outcome.rate = task[t].seenRate
       /\ task[t].outcome.fromCache
       /\ HttpCalls(t) = 0

(* A valid entry was served to a user who is not active *)
C8_Witness ==
  \E t \in Tasks :
    /\ Computing(t) /\ task[t].pc = "done"
    /\ task[t].seenValid /\ task[t].seenRate # NoRate /\ ~task[t].seenActive

(* C9: if the user is inactive and the cache entry read for the base is     *)
(* expired and holds a rate for the target, getCurrencyRate returns that    *)
(* rate with fromCache = true and stale = true and makes no HTTP call.      *)
C9_InactiveServesStale ==
  \A t \in Tasks :
    (Computing(t) /\ ~task[t].seenActive /\ ~task[t].seenValid /\ task[t].seenRate # NoRate)
    => /\ task[t].pc = "done"
       /\ task[t].outcome.kind = "ok"
       /\ task[t].outcome.rate = task[t].seenRate
       /\ task[t].outcome.fromCache /\ task[t].outcome.stale
       /\ HttpCalls(t) = 0

C9_Witness ==
  \E t \in Tasks :
    /\ Computing(t) /\ task[t].pc = "done"
    /\ ~task[t].seenActive /\ ~task[t].seenValid /\ task[t].seenRate # NoRate

(* C10: while the user is inactive (now - lastUserActivity >=               *)
(* inactivityThreshold), prefetchIfStale and refreshCacheIfNeeded make no   *)
(* HTTP call, and neither does warmCache when the usd entry it read is      *)
(* valid.                                                                   *)
C10_ActivityGate ==
  \A t \in Tasks :
    /\ (task[t].kind \in {"prefetch", "refresh"} /\ ~task[t].seenActive) => HttpCalls(t) = 0
    /\ (task[t].kind = "warm" /\ ~task[t].seenActive /\ task[t].seenValid) => HttpCalls(t) = 0

(* With an inactive user, a gated method and a warmCache over a valid entry *)
(* have both returned                                                       *)
C10_Witness ==
  \E t \in Tasks, u \in Tasks :
    /\ task[t].kind \in {"prefetch", "refresh"} /\ task[t].pc = "done" /\ ~task[t].seenActive
    /\ task[u].kind = "warm" /\ task[u].pc = "done" /\ ~task[u].seenActive /\ task[u].seenValid

(* The getCurrencyRate calls that read, with an active user, an expired    *)
(* entry holding the rate of their target                                  *)
ExpiredActive(t) ==
  /\ Computing(t) /\ task[t].pc # "readCache"
  /\ task[t].seenActive /\ ~task[t].seenValid /\ task[t].seenRate # NoRate
Supplied(t) == task[t].primaryGave # NoRate \/ task[t].fallbackGave # NoRate

(* C11 as stated: with an active user, a getCurrencyRate call made after    *)
(* the entry of the base has reached age >= cacheTimeout does not serve the *)
(* cached rate but triggers exactly one new fetch.                          *)
C11_Original ==
  \A t \in Tasks :
    (ExpiredActive(t) /\ task[t].pc = "done") =>
      /\ task[t].nPrimary = 1
      /\ ~task[t].outcome.fromCache

(* C11 amended: such a call does not serve the cached rate without         *)
(* fetching: it makes exactly one request to the primary API, and one to   *)
(* the fallback API only when the primary gave no rate; when either gives  *)
(* the rate it returns that rate with fromCache = false, and only when     *)
(* both fail does it return the cached rate, with stale = true.            *)
C11_ExpiredTriggersFetch ==
  \A t \in Tasks :
    ExpiredActive(t) =>
      /\ task[t].nPrimary = 1 /\ task[t].nFallback <= 1
      /\ task[t].nFallback = 1 => task[t].primaryGave = NoRate
      /\ task[t].pc = "done" =>
            /\ task[t].outcome.kind = "ok"
            /\ IF Supplied(t)
                 THEN /\ ~task[t].outcome.fromCache /\ ~task[t].outcome.stale
                      /\ task[t].outcome.rate \in {task[t].primaryGave, task[t].fallbackGave} \ {NoRate}
                 ELSE /\ task[t].outcome.fromCache /\ task[t].outcome.stale
                      /\ task[t].outcome.rate = task[t].seenRate

(* An expired entry was read for an active user and the primary API gave   *)
(* the rate                                                                *)
C11_Witness ==
  \E t \in Tasks :
    /\ ExpiredActive(t) /\ task[t].pc = "done"
    /\ task[t].primaryGave # NoRate /\ ~task[t].outcome.fromCache

(* The prefetchIfStale calls that read a usd entry with an active user *)
PrefetchRead(t) ==
  /\ task[t].kind = "prefetch" /\ task[t].pc # "prefetchRead"
  /\ task[t].seenActive /\ task[t].seenPresent

(* C12: with an active user and an existing usd entry of age a,            *)
(* prefetchIfStale starts a primary fetch for usd if and only if           *)
(* staleThreshold <= a < cacheTimeout.                                     *)
C12_PrefetchWindow ==
  \A t \in Tasks :
    PrefetchRead(t) =>
      ((task[t].fetched = <<"usd">>) <=> (task[t].seenStale /\ task[t].seenValid))

(* The warmCache calls that have read the usd entry *)
WarmRead(t) == task[t].kind = "warm" /\ task[t].pc # "warmRead"

(* C13: warmCache makes a primary fetch for usd if and only if the usd     *)
(* entry it read is not valid (absent, or of age >= cacheTimeout); with a  *)
(* valid entry it makes no HTTP call.                                      *)
C13_WarmFetchesUnlessValid ==
  \A t \in Tasks :
    WarmRead(t) =>
      /\ task[t].seenValid => HttpCalls(t) = 0
      /\ ~task[t].seenValid => (task[t].fetched = <<"usd">> /\ task[t].nFallback = 0)

(* One warmCache found a valid entry and returned, a later one found it    *)
(* expired and fetched                                                     *)
C13_Witness ==
  \E t \in Tasks, u \in Tasks :
    /\ WarmRead(t) /\ task[t].pc = "done" /\ task[t].seenValid /\ HttpCalls(t) = 0
    /\ WarmRead(u) /\ task[u].pc = "done" /\ ~task[u].seenValid /\ task[u].nPrimary = 1

Range(seq) == {seq[i] : i \in 1..Len(seq)}

(* C14: with an active user, refreshCacheIfNeeded re-fetches from the      *)
(* primary API exactly the cached bases that are older than                *)
(* refreshThreshold when its loop reaches them (age by the timestamp it    *)
(* read), and fetches no base of age <= refreshThreshold.                  *)
C14_RefreshExactlyDue ==
  \A t \in Tasks :
    (task[t].kind = "refresh" /\ task[t].seenActive) =>
      /\ task[t].fetched = task[t].due
      /\ Range(task[t].fetched) \cap task[t].passed = {}
      /\ task[t].nFallback = 0

(* A refresh went over two bases, fetched the old one and left the other *)
C14_Witness ==
  \E t \in Tasks :
    /\ task[t].kind = "refresh" /\ task[t].seenActive /\ task[t].pc = "done"
    /\ Len(task[t].fetched) = 1 /\ Cardinality(task[t].passed) = 1

(* C15: in refreshCacheIfNeeded a failed re-fetch of one base does not     *)
(* prevent the attempts for the remaining bases: the loop reaches every    *)
(* base it read, and every base that is due is attempted once, in the      *)
(* order of the loop.                                                      *)
C15_RefreshContinuesAfterFailure ==
  \A t \in Tasks :
    (task[t].kind = "refresh" /\ task[t].pc = "done" /\ task[t].readBases # {}) =>
      /\ Range(task[t].due) \cup task[t].passed = task[t].readBases
      /\ task[t].fetched = task[t].due
      /\ Cardinality(Range(task[t].fetched)) = Len(task[t].fetched)

(* The first of two re-fetches failed and the second was still made *)
C15_Witness ==
  \E t \in Tasks :
    /\ task[t].kind = "refresh" /\ task[t].pc = "done"
    /\ Len(task[t].fetched) = 2 /\ task[t].fetched[1] \in task[t].failed

(* C16: warmCache, prefetchIfStale and refreshCacheIfNeeded never raise an *)
(* error to their caller, whatever API or storage call fails, also when    *)
(* two of them run concurrently: what they settle with is undefined.       *)
C16_BackgroundNeverThrows ==
  \A t \in Tasks :
    task[t].kind \in {"warm", "prefetch", "refresh"} =>
      /\ task[t].outcome.kind \in {"none", "void"}
      /\ task[t].pc = "done" => task[t].outcome = Void

(* Two warmCache calls have returned, one after a failed request, the      *)
(* other after a failed storage call                                       *)
C16_Witness ==
  \E t \in Tasks, u \in Tasks :
    /\ t # u /\ task[t].kind = "warm" /\ task[u].kind = "warm"
    /\ task[t].pc = "done" /\ task[u].pc = "done"
    /\ task[t].failed # {} /\ task[u].fault
    /\ task[t].outcome = Void /\ task[u].outcome = Void

(* The places where an invocation awaits a storage call *)
StoragePcs == {"readCache", "cacheGet", "cacheSet", "persist", "warmRead",
               "prefetchRead", "refreshRead", "clearRemove", "loadRead"}
(* Task t resumes in this step from a storage call that failed *)
StorageFailed(t) ==
  task[t].pc \in StoragePcs /\ task'[t] # task[t] /\ task'[t].fault

(* C17: storage failures are absorbed by the rate service.  A failing read *)
(* makes getCachedRate return null, so the caller goes on as on a cache    *)
(* miss; a failing read, write or remove inside setCachedRate, clearCache  *)
(* or updateActivity leaves the store as it was; the storage error never   *)
(* reaches a caller.                                                       *)
C17_StorageFailuresAbsorbed ==
  [][\A t \in Tasks :
       StorageFailed(t) =>
         /\ storedCache' = storedCache /\ storedActivity' = storedActivity
         /\ task'[t].outcome.kind = "error" => task'[t].outcome = RateUnavailable
         /\ task[t].pc \in {"readCache", "warmRead"} =>
               (task'[t].pc = "http" /\ task'[t].api = "primary")
         /\ task[t].pc = "prefetchRead" => task'[t].pc = "warmRead"
         /\ task[t].pc = "cacheGet" => task'[t].pc # "cacheSet"]_vars

(* A getCurrencyRate call returned a fetched rate although the write of    *)
(* the cache failed, and a clearCache whose remove failed left the store   *)
C17_Witness ==
  \E t \in Tasks, u \in Tasks :
    /\ Computing(t) /\ task[t].pc = "done" /\ task[t].fault
    /\ task[t].outcome.kind = "ok" /\ ~task[t].outcome.fromCache
    /\ task[u].kind = "clear" /\ task[u].pc = "done" /\ task[u].fault
    /\ storedCache # EmptyCache

(* C18: isCacheValid(entry) holds if and only if the entry exists and      *)
(* now - entry.timestamp < cacheTimeout: an entry of age exactly           *)
(* cacheTimeout is invalid, an entry with a timestamp in the future        *)
(* (negative age) is valid.                                                *)
C18_IsCacheValidBoundary ==
  /\ ~isCacheValid(NoEntry)
  /\ \A b \in Codes :
       LET entry == storedCache[b]
           age == now - entry.timestamp
       IN /\ isCacheValid(entry) <=> (entry.present /\ age < cacheTimeout)
          /\ (entry.present /\ age = cacheTimeout) => ~isCacheValid(entry)
          /\ (entry.present /\ age < 0) => isCacheValid(entry)

(* warmCache has found the usd entry, stamped in the future, valid, while  *)
(* the eur entry is exactly cacheTimeout old                               *)
C18_Witness ==
  \E t \in Tasks :
    /\ WarmRead(t) /\ task[t].seenValid /\ task[t].pc = "done"
    /\ storedCache["usd"].present /\ storedCache["usd"].timestamp > now
    /\ storedCache["eur"].present /\ now - storedCache["eur"].timestamp = cacheTimeout

(* C19: getCurrencyRate returns stale = true only when the rate it serves  *)
(* is the one of the cache entry the fetch read and that entry was at      *)
(* least cacheTimeout old.                                                 *)
C19_StaleOnlyWhenExpired ==
  \A t \in Tasks :
    (task[t].kind = "getRate" /\ task[t].outcome.kind = "ok" /\ task[t].outcome.stale) =>
      LET o == task[t].owner
      IN /\ task[o].seenRate # NoRate /\ ~task[o].seenValid
         /\ task[t].outcome.rate = task[o].seenRate
         /\ task[t].outcome.fromCache

(* An active user was served a stale rate after both APIs failed *)
C19_Witness ==
  \E t \in Tasks :
    /\ Computing(t) /\ task[t].pc = "done" /\ task[t].outcome.stale
    /\ task[t].seenActive /\ HttpCalls(t) = 2

(* C20: clearCache removes the whole persisted cache record, every base of *)
(* it, and leaves the persisted and the in-memory lastUserActivity as they *)
(* were.                                                                   *)
C20_ClearCacheFrame ==
  [][\A t \in Tasks :
       (task'[t].kind = "clear" /\ task'[t] # task[t]) =>
         /\ storedActivity' = storedActivity
         /\ lastUserActivity' = lastUserActivity
         /\ (task'[t].pc = "done" /\ ~task'[t].fault) => storedCache' = EmptyCache]_vars

(* The cache of both bases is gone, the activity record is still there *)
C20_Witness ==
  \E t \in Tasks :
    /\ task[t].kind = "clear" /\ task[t].pc = "done" /\ ~task[t].fault
    /\ storedCache = EmptyCache
    /\ storedActivity # NoActivity /\ lastUserActivity = storedActivity

(* Steps of updateActivity and loadActivity *)
ActivityStarts(t) == task[t].kind = "idle" /\ task'[t].kind = "updateActivity"
ActivityCompletes(t) ==
  task[t].kind = "updateActivity" /\ task[t].pc = "persist" /\ task'[t].pc = "done"
LoadCompletes(t) == task[t].pc = "loadRead" /\ task'[t].pc # "loadRead"

(* C21 as stated: after updateActivity completes, the in-memory            *)
(* lastUserActivity equals the time of the call, and the persisted         *)
(* lastUserActivity equals it whenever the storage write succeeded; the    *)
(* in-memory value is updated even when the write fails.                   *)
C21_Original ==
  [][\A t \in Tasks :
       ActivityCompletes(t) =>
         /\ lastUserActivity' = task[t].ts
         /\ ~task'[t].fault => storedActivity' = task[t].ts]_vars

(* C21 amended: updateActivity sets the in-memory lastUserActivity to the  *)
(* time of the call before it writes, and only a later updateActivity call *)
(* or a completing loadActivity changes it afterwards, so that it equals   *)
(* the time of the call when the call completes unless one of those ran    *)
(* meanwhile; when the storage write succeeds the persisted value equals   *)
(* the time of the call, and a failed write changes neither value.         *)
C21_UpdateActivity ==
  [][/\ \A t \in Tasks :
          /\ ActivityStarts(t) => (lastUserActivity' = now /\ task'[t].ts = now)
          /\ ActivityCompletes(t) =>
                /\ lastUserActivity' = lastUserActivity
                /\ storedActivity' = IF task'[t].fault THEN storedActivity ELSE task[t].ts
     /\ lastUserActivity' # lastUserActivity =>
          \E t \in Tasks : ActivityStarts(t) \/ LoadCompletes(t)]_vars

(* An updateActivity call has completed after a failed write: the memory   *)
(* holds the time of the call, the store does not                          *)
C21_Witness ==
  \E t \in Tasks :
    /\ task[t].kind = "updateActivity" /\ task[t].pc = "done" /\ task[t].fault
    /\ lastUserActivity = now /\ now > inactivityThreshold
    /\ storedActivity # lastUserActivity

(* The fetch computation of call o for the pair k is outstanding *)
Outstanding(o, k) ==
  /\ Computing(o) /\ task[o].pc # "done"
  /\ pairKey(task[o].base, task[o].target) = k
(* Call t is made in this step *)
CallMade(t) == task[t].kind = "idle" /\ task'[t].kind = "getRate"

(* C25: the in-flight map holds an entry for a pair exactly while that     *)
(* pair's fetch is outstanding: the entry is the call computing it, and it *)
(* is gone once the fetch has resolved or failed.                          *)
C25_InFlightWhileOutstanding ==
  \A k \in PairKeys :
    /\ inFlightRequests[k] # NoTask => Outstanding(inFlightRequests[k], k)
    /\ \A o \in Tasks : Outstanding(o, k) => inFlightRequests[k] = o

(* C25, second half: a getCurrencyRate call made when no fetch of its pair *)
(* is outstanding starts a new computation, one made while a fetch is      *)
(* outstanding receives that fetch's future.                               *)
C25_NewComputationAfterCompletion ==
  [][\A t \in Tasks :
       CallMade(t) =>
         LET k == pairKey(task'[t].base, task'[t].target)
             out == {o \in Tasks : Outstanding(o, k)}
         IN IF out = {} THEN task'[t].owner = t /\ task'[t].pc = "readCache"
            ELSE task'[t].owner \in out /\ task'[t].pc = "awaitShared"]_vars

(* The conjunction checked for C25 *)
C25_InFlightLifetime ==
  [](C25_InFlightWhileOutstanding) /\ C25_NewComputationAfterCompletion

(* A call failed, its entry is gone, and a later call for the same pair    *)
(* computes anew                                                           *)
C25_Witness ==
  \E t \in Tasks, u \in Tasks :
    /\ t < u /\ Computing(t) /\ task[t].pc = "done" /\ task[t].outcome.kind = "error"
    /\ Computing(u) /\ task[u].base = task[t].base /\ task[u].target = task[t].target
    /\ task[u].pc = "http"
    /\ inFlightRequests[pairKey(task[u].base, task[u].target)] = u

(* Steps of the store: task t resumes from the storage.set of setCachedRate *)
(* and the write went through; task t resumes from the storage.remove of    *)
(* clearCache and the record is gone.                                       *)
CacheWritten(t) == task[t].pc = "cacheSet" /\ task'[t] # task[t] /\ ~task'[t].fault
CacheCleared(t) == task[t].pc = "clearRemove" /\ task'[t] # task[t] /\ ~task'[t].fault

(* C26: a persisted cache entry for base b is changed or removed only by   *)
(* clearCache or by a successful fetch for b replacing it; a cache write   *)
(* for a different base never removes or alters it, for every interleaving *)
(* of overlapping fetches.                                                 *)
C26_EntryChangedOnlyByOwnBase ==
  [][\A b \in Codes :
       storedCache'[b] # storedCache[b] =>
         \/ \E t \in Tasks : CacheCleared(t)
         \/ \E t \in Tasks : CacheWritten(t) /\ task[t].base = b]_vars

(* C27: for each base, every successful cache write replaces the stored    *)
(* entry with one whose timestamp is strictly greater than the timestamp   *)
(* of the entry it replaces, for every interleaving of concurrent fetches  *)
(* of that base.  The clock of the model is coarser than the timestamps,   *)
(* so two writes stamped within one reading of the clock are not held      *)
(* against the claim: what is checked is the consequence that no write     *)
(* replaces an entry by one with a smaller timestamp.                      *)
C27_WritesAdvanceTimestamp ==
  [][\A t \in Tasks :
       (CacheWritten(t) /\ storedCache[task[t].base].present) =>
         storedCache'[task[t].base].timestamp >= storedCache[task[t].base].timestamp]_vars

(* C28: once clearCache has completed, no cache entry that existed before  *)
(* the clear is present in the store unless a fetch for that same base     *)
(* wrote it again: a cache write that overlaps the clear does not bring    *)
(* back the entries of other bases that the clear removed.                 *)
C28_ClearedEntriesStayCleared ==
  [][\A t \in Tasks :
       (/\ CacheWritten(t)
        /\ \E u \in Tasks : task[u].kind = "clear" /\ task[u].pc = "done" /\ ~task[u].fault)
       => \A c \in Codes \ {task[t].base} :
            ~storedCache[c].present => ~storedCache'[c].present]_vars

(* The listeners that call loadActivity, and whether one of them has got   *)
(* its loadActivity back                                                   *)
LoadingListeners == {"onInstalled", "onStartup"}
ActivityLoaded == \E u \in Tasks : task[u].handler \in LoadingListeners /\ task[u].pc # "loadRead"
(* The persisted lastUserActivity, 0 if none is stored *)
PersistedActivity == IF storedActivity = NoActivity THEN 0 ELSE storedActivity
(* In this step the alarm listener or the activity message listener        *)
(* evaluates isUserActive(): at the top of refreshCacheIfNeeded and of     *)
(* prefetchIfStale                                                         *)
EvaluatesIsUserActive(t) ==
  \/ task[t].kind = "idle" /\ task'[t].kind = "refresh"
  \/ task[t].kind # "prefetch" /\ task'[t].kind = "prefetch"

(* C29: after a (re)start of the background worker the in-memory           *)
(* lastUserActivity has been restored from the persisted value (0 if none  *)
(* is stored) before any message or alarm listener evaluates isUserActive: *)
(* when one does, a loadActivity has returned, or the value in memory is   *)
(* no older than the persisted one.                                        *)
C29_ActivityRestoredBeforeUse ==
  [][\A t \in Tasks :
       EvaluatesIsUserActive(t) =>
         (ActivityLoaded \/ lastUserActivity >= PersistedActivity)]_vars

(* The listener invocation t has called warmCache *)
WarmCacheInvoked(t) == task[t].kind = "warm"

(* C30 as stated: warmCache is invoked both when the extension is          *)
(* installed or updated (onInstalled) and when the browser starts          *)
(* (onStartup).                                                            *)
C30_Original ==
  \A t \in Tasks :
    (task[t].handler \in LoadingListeners /\ task[t].pc = "done") => WarmCacheInvoked(t)

(* C30 amended: warmCache is invoked when the extension is installed or    *)
(* updated (onInstalled), whatever storage call of the listener fails;     *)
(* the onStartup listener loads the activity and sets up the alarm and the *)
(* context menu, and does not invoke warmCache.                            *)
C30_WarmCacheOnInstalled ==
  \A t \in Tasks :
    /\ (task[t].handler = "onInstalled" /\ task[t].pc = "done") =>
          (WarmCacheInvoked(t) /\ (~task[t].seenValid => task[t].fetched = <<"usd">>))
    /\ task[t].handler = "onStartup" => (~WarmCacheInvoked(t) /\ HttpCalls(t) = 0)

(* Both listeners have run: onInstalled has called warmCache, which has    *)
(* fetched usd; onStartup has returned                                     *)
C30_Witness ==
  \E t \in Tasks, u \in Tasks :
    /\ task[t].handler = "onInstalled" /\ task[t].pc = "done"
    /\ WarmCacheInvoked(t) /\ task[t].nPrimary = 1
    /\ task[u].handler = "onStartup" /\ task[u].pc = "done"

----------------------------------------------------------------------------
(* The detector and the popup *)

(* findConversions is called in this step by invocation p *)
FindConversionsCalled(p) == ~handling[p].called /\ handling'[p].called

Precedence(found, dimension, currency, unit) ==
  /\ Len(found) <= 1
  /\ dimension # NoResult => found = <<dimension>>
  /\ (dimension = NoResult /\ currency # NoResult) => found = <<currency>>
  /\ (dimension = NoResult /\ currency = NoResult /\ unit # NoResult) => found = <<unit>>
  /\ (dimension = NoResult /\ currency = NoResult /\ unit = NoResult) => found = <<>>

(* C22: findConversions returns at most one conversion for any input: the   *)
(* dimension result of the (trimmed) text if there is one, else its         *)
(* currency result, else its single-unit result, else nothing.              *)
C22_SingleConversionByPrecedence ==
  [][\A p \in Handlings :
       FindConversionsCalled(p) =>
         Precedence(handling'[p].conversions,
                    detectDimension(Trim(selectedText), userSettings),
                    detectCurrency(Trim(selectedText), userSettings),
                    detectUnit(Trim(selectedText), userSettings))]_vars

(* findConversions has returned the dimension of a text that also holds an  *)
(* amount of money and a length, each with a result of its own.             *)
C22_Witness ==
  \E p \in Handlings :
    /\ handling[p].called
    /\ handling[p].conversions = <<detectDimension(Trim(selectedText), userSettings)>>
    /\ handling[p].conversions[1].type = "dimensions"
    /\ detectCurrency(Trim(selectedText), userSettings) # NoResult
    /\ detectUnit(Trim(selectedText), userSettings) # NoResult

PopupDisplayed == body # {}

Undefined == "undefined"
Property(object, name) == IF name \in DOMAIN object THEN object[name] ELSE Undefined
ListenerAttached(name) == Property(popupManager, name) \notin {Undefined, Null}

(* C24: the popup manager's scrollListener and resizeListener are set       *)
(* exactly while a popup is displayed: both set once showConversionPopup    *)
(* has displayed a popup, none set after hidePopup or a dismissal.          *)
C24_ListenersWhileDisplayed ==
  /\ PopupDisplayed => (ListenerAttached("scrollListener") /\ ListenerAttached("resizeListener"))
  /\ ~PopupDisplayed => (~ListenerAttached("scrollListener") /\ ~ListenerAttached("resizeListener"))

(* C33: a popup is shown only for the most recent selection: the popup of   *)
(* an invocation of handleTextSelection that waited for its rate while a    *)
(* later selection or an outside click was handled is never in the document. *)
C33_OnlyMostRecentSelectionShown == \A p \in Handlings : p \in body => ~handling[p].overtaken

(* C34: at any time at most one popup element is in the document, also      *)
(* when calls of showConversionPopup overlap.                               *)
C34_AtMostOnePopup == Cardinality(body) <= 1

----------------------------------------------------------------------------
(* The activity pings of the content script *)

(* C31: a content script sends at most one updateActivity message per       *)
(* ACTIVITY_PING_THROTTLE (5 minutes): any two messages it sends are more   *)
(* than that apart, however many clicks and selections there are.           *)
C31_PingsThrottled ==
  \A i, j \in 1..Len(pinged) : i < j => pinged[j] - pinged[i] > ACTIVITY_PING_THROTTLE

(* Two messages have been sent, the second by the interaction of this       *)
(* moment, and an invocation of handleTextSelection has run to its end.     *)
C31_Witness ==
  /\ Len(pinged) = 2
  /\ interacted = pinged[2]
  /\ \E p \in Handlings : handling[p].pc = "done"

(* C32: when the user has clicked or selected text in the page within the   *)
(* last inactivityThreshold and every message sent has reached the worker,  *)
(* isUserActive() is true.                                                  *)
C32_InteractingUserIsActive ==
  (interacted # NoActivity /\ now - interacted < inactivityThreshold /\ outbox = 0) => isUserActive

(* C35: whenever processCurrencyConversions has returned, every currency    *)
(* conversion has needsAsyncProcessing = false and a converted text that is *)
(* an amount, 'Rate unavailable' or 'Conversion failed', never '...'.       *)
C35_NoPendingCurrency ==
  \A p \in Handlings :
    handling[p].pc \in {"settings", "done"} =>
      \A i \in 1..Len(handling[p].conversions) :
        handling[p].conversions[i].type = "currency" =>
          /\ ~handling[p].conversions[i].needsAsyncProcessing
          /\ handling[p].conversions[i].converted \in {"amount", "Rate unavailable", "Conversion failed"}

----------------------------------------------------------------------------
(* The single-unit detector *)

(* The pattern of a unit type matches somewhere in the text *)
PatternMatches(unitType, text) ==
  IF getCompiledPattern(unitType) = Null THEN FALSE
  ELSE IF unitType = "timezone" THEN MatchTimezone(text).ok
  ELSE MatchPattern(UnitPattern(unitType), text).ok

(* What the unit type gives for the text when it is tried alone *)
ResultOf(unitType, text, settings) == detectUnitFrom(<<unitType>>, text, settings)

(* The order of the unit types as the specification gives it *)
SpecifiedOrder ==
  <<"length", "torque", "timezone", "time", "area", "speed", "acceleration", "flowRate", "pressure",
    "temperature", "volume", "weight">>

IsFirst(i, Holds(_)) == Holds(SpecifiedOrder[i]) /\ \A j \in 1..(i - 1) : ~Holds(SpecifiedOrder[j])

(* findConversions has been called by invocation p and neither a dimension  *)
(* nor an amount of money was found: what it returned is detectUnit's.      *)
SingleUnitTried(p) ==
  /\ handling[p].called
  /\ detectDimension(Trim(selectedText), userSettings) = NoResult
  /\ detectCurrency(Trim(selectedText), userSettings) = NoResult

(* C36 as stated: the conversion emitted for a text belongs to the first    *)
(* unit type, in the order length, torque, timezone, time, area, speed,     *)
(* acceleration, flowRate, pressure, temperature, volume, weight, whose     *)
(* pattern matches the text.                                                *)
C36_Original ==
  \A p \in Handlings :
    (SingleUnitTried(p) /\ handling[p].conversions # <<>>) =>
      \E i \in 1..Len(SpecifiedOrder) :
        /\ LET Matches(unitType) == PatternMatches(unitType, Trim(selectedText)) IN IsFirst(i, Matches)
        /\ handling[p].conversions[1].type = SpecifiedOrder[i]

(* C36: the unit types are tried in the order length, torque, timezone,     *)
(* time, area, speed, acceleration, flowRate, pressure, temperature,        *)
(* volume, weight, and the conversion emitted is the one of the first unit  *)
(* type in that order whose pattern matches and whose match gives a         *)
(* conversion; nothing is emitted when no unit type gives one.              *)
C36_FirstInOrderThatConverts ==
  \A p \in Handlings :
    SingleUnitTried(p) =>
      LET Converts(unitType) == ResultOf(unitType, Trim(selectedText), userSettings) # NoResult
      IN IF \E i \in 1..Len(SpecifiedOrder) : Converts(SpecifiedOrder[i])
         THEN \E i \in 1..Len(SpecifiedOrder) :
                /\ IsFirst(i, Converts)
                /\ handling[p].conversions = <<ResultOf(SpecifiedOrder[i], Trim(selectedText), userSettings)>>
                /\ handling[p].conversions[1].type = SpecifiedOrder[i]
         ELSE handling[p].conversions = <<>>

(* A time with its zone and a volume in pints have been selected: both the  *)
(* timezone and the volume pattern give a conversion, and the one emitted   *)
(* is the timezone's.                                                       *)
C36_Witness ==
  \E p \in Handlings :
    /\ SingleUnitTried(p)
    /\ handling[p].conversions # <<>>
    /\ handling[p].conversions[1].type = "timezone"
    /\ ResultOf("volume", Trim(selectedText), userSettings) # NoResult

----------------------------------------------------------------------------
(* The unit of a dimension *)

DimensionMatch(text) ==
  FirstMatch(MatchPattern(dimensionsWithUnitsPattern, text), MatchPattern(dimensionsPattern, text))

(* The unit each of the three axes of the selection is sized to on its own *)
PreferredUnits(text, settings) ==
  [i \in 1..3 |-> BestOf(Values(Matched(text, DimensionMatch(text)))[i],
                         normalizeUnit(DimensionMatch(text).unit),
                         TargetOf(DimensionMatch(text), settings)).unit]

(* findConversions, called by invocation p, has returned a dimension *)
DimensionEmitted(p) ==
  handling[p].called /\ handling[p].conversions # <<>> /\ handling[p].conversions[1].type = "dimensions"

(* C38: the unit a three-axis dimension is displayed in is the auto-sized   *)
(* unit of the axes if and only if all three axes prefer the same unit on   *)
(* their own and that unit is not the user's target unit; in every other    *)
(* case it is the user's target unit.                                       *)
C38_HarmonisedUnit ==
  \A p \in Handlings :
    DimensionEmitted(p) =>
      LET prefer == PreferredUnits(Trim(selectedText), userSettings)
          target == TargetOf(DimensionMatch(Trim(selectedText)), userSettings)
          shown == handling[p].conversions[1].converted.unit
      IN IF prefer[1] = prefer[2] /\ prefer[2] = prefer[3] /\ prefer[1] # target
         THEN shown = prefer[1]
         ELSE shown = target

(* A dimension in feet has been selected with metres as the target: every   *)
(* axis is below one metre, and the dimension is displayed in centimetres.  *)
C38_Witness ==
  \E p \in Handlings :
    /\ DimensionEmitted(p)
    /\ handling[p].conversions[1].converted.unit # TargetOf(DimensionMatch(Trim(selectedText)), userSettings)
    /\ \A i \in 1..3 : PreferredUnits(Trim(selectedText), userSettings)[i] = handling[p].conversions[1].converted.unit

----------------------------------------------------------------------------
(* Conversions that would change nothing *)

(* The pattern of the unit type matches the text and the user has a target  *)
(* unit for the unit matched.                                               *)
HasTarget(unitType, text, settings) ==
  /\ unitType # "timezone"
  /\ PatternMatches(unitType, text)
  /\ TargetOf(MatchPattern(UnitPattern(unitType), text), settings) # Null

(* The value and the unit the match of the unit type is displayed in: the   *)
(* value converted to the target unit and auto-sized.                       *)
DisplayOf(unitType, text, settings) ==
  LET match == MatchPattern(UnitPattern(unitType), text)
  IN getBestUnit(convert(Values(Matched(text, match))[1], normalizeUnit(match.unit), TargetOf(match, settings)),
                 unitType, TargetOf(match, settings))

(* The display unit is the unit selected and the value is the one selected *)
IsNoOp(unitType, text, settings) ==
  LET match == MatchPattern(UnitPattern(unitType), text)
  IN /\ DisplayOf(unitType, text, settings).unit = normalizeUnit(match.unit)
     /\ EssentiallySame(DisplayOf(unitType, text, settings).value, Values(Matched(text, match))[1])

(* The same for the three axes of a dimension, in the unit chosen for them *)
IsNoOpDimension(text, settings) ==
  LET match == DimensionMatch(text)
      axes == Values(Matched(text, match))
      from == normalizeUnit(match.unit)
      chosen == chosenUnitOf(axes, from, TargetOf(match, settings))
  IN chosen = from /\ \A i \in 1..3 : EssentiallySame(convert(axes[i], from, chosen), axes[i])

(* A dimension that covers the selection and has a target unit *)
DimensionHasTarget(text, settings) ==
  /\ DimensionMatch(text).ok
  /\ 10 * CharLen(Matched(text, DimensionMatch(text))) >= 8 * CharLen(text)
  /\ TargetOf(DimensionMatch(text), settings) # Null

(* C37: the detector emits no conversion for a match if the unit selected   *)
(* and the display unit chosen are the same and the converted value differs *)
(* from the value selected by less than 0.01, and it emits a conversion     *)
(* when either fails: a dimension is emitted exactly when it is not such a  *)
(* conversion, and a single unit is emitted exactly when one of the unit    *)
(* types that match is not.                                                 *)
C37_NoOpRule ==
  \A p \in Handlings :
    handling[p].called =>
      LET text == Trim(selectedText)
          units == {SpecifiedOrder[i] : i \in 1..Len(SpecifiedOrder)}
      IN /\ DimensionHasTarget(text, userSettings) =>
              (DimensionEmitted(p) <=> ~IsNoOpDimension(text, userSettings))
         /\ (SingleUnitTried(p) /\ detectTimezone(text, userSettings) = NoResult) =>
              (handling[p].conversions # <<>> <=>
                 \E unitType \in units : HasTarget(unitType, text, userSettings) /\ ~IsNoOp(unitType, text, userSettings))

----------------------------------------------------------------------------
(* The context menu *)

====
